---- MODULE Spec2Model ----
(***************************************************************************)
(* Verification model of clip-creator-cli.                                 *)
(*                                                                         *)
(*  - the batch controller, SimpleBatchProcessor (utils/batchProcessor.js) *)
(*  - the pipeline orchestrator, createVideo (src/index.js), entered       *)
(*    directly or through the CLI "create" action (bin/cli.js)             *)
(*  - the script generator, PromptGenerator.generateScript (core/script.js)*)
(*                                                                         *)
(* One run of the model exercises one entry point: a batch, a pipeline or  *)
(* a direct generateScript call.  Every event handler of the program runs  *)
(* to completion on the single JavaScript thread, so every handler is one  *)
(* atomic action.                                                          *)
(***************************************************************************)
EXTENDS Integers, Sequences, FiniteSets, TLC

(***************************************************************************)
(* Bounds of the model.                                                    *)
(***************************************************************************)
MaxCount == 3
MaxM == 2
MaxCpus == 3

TaskIds == 0 .. (MaxCount - 1)

Range(s) == {s[i] : i \in 1 .. Len(s)}

Max(a, b) == IF a >= b THEN a ELSE b

\* options.maxConcurrent values handed to the constructor; 0 stands for an
\* absent (falsy) option, -1 for a negative number.
OptionsMaxConcurrent == -1 .. MaxM

\* Exit codes a 'close' event reports: 0, 1, and the negative errno Node
\* passes when the spawn itself failed (ENOENT).
ExitCodes == {0, 1, -2}

\* ---- script generator: constants of core/script.js ----
SEGMENT_DURATION == 5
MAX_RETRIES == 3
MIN_SEGMENTS == 3
MIN_TEXT == 15
MIN_DESCRIPTION == 5

\* Longest segment list a modelled completion carries.
MaxSegments == 3

TransitionEnum ==
    {"fade", "slideLeft", "slideRight", "dissolve", "circleWipe", "pixelize",
     "panLeft", "panRight", "scaleUp", "scaleDown", "rotate",
     "directionalWipe"}

\* An error message is the sequence of the pieces it is built from.
LLM_ERROR_MESSAGE ==
    <<"Failed to generate valid response from AI model. Please try again later.">>

NoError == <<>>

\* Segments a completion may carry: two that satisfy SegmentSchema and one
\* violating each of duration, transition and text length.
SampleSegments ==
    { [id |-> 1, textLen |-> 20, duration |-> 5, descLen |-> 10,
       transition |-> "fade"],
      [id |-> 2, textLen |-> 20, duration |-> 5, descLen |-> 10,
       transition |-> "directionalWipe"],
      [id |-> 1, textLen |-> 20, duration |-> 10, descLen |-> 10,
       transition |-> "fade"],
      [id |-> 1, textLen |-> 20, duration |-> 5, descLen |-> 10,
       transition |-> "zoomIn"],
      [id |-> 1, textLen |-> 4, duration |-> 5, descLen |-> 10,
       transition |-> "fade"] }

SegmentLists == UNION {[1 .. n -> SampleSegments] : n \in 0 .. MaxSegments}

\* What the completion endpoint can answer: a rejection of the SDK call, or
\* a completion whose content is empty, "{}", not JSON, or a JSON object with
\* a segments array.
ApiErrors == {<<"401 Invalid API Key">>, <<"Unexpected end of JSON input">>}

Completions ==
    {[kind |-> "apiError", message |-> m, segments |-> <<>>] : m \in ApiErrors}
    \cup {[kind |-> k, message |-> NoError, segments |-> <<>>] :
              k \in {"empty", "emptyObject", "notJson"}}
    \cup {[kind |-> "json", message |-> NoError, segments |-> sl] :
              sl \in SegmentLists}

NoCompletion == [kind |-> "none", message |-> NoError, segments |-> <<>>]

\* Configurations handed to generateScript.  "" and 0 stand for a missing
\* (falsy) field.
ScriptConfigs ==
    [duration : {0, 10, 15, 17}, category : {"", "Food & Cooking"},
     tone : {"", "Friendly/Casual"}, style : {"", "media"},
     topic : {"", "AI Technology"}, keyTermsDefined : BOOLEAN]

NoScriptConfig ==
    [duration |-> 0, category |-> "", tone |-> "", style |-> "", topic |-> "",
     keyTermsDefined |-> FALSE]

NoScript == [segments |-> <<>>]

\* ---- pipeline orchestrator ----
StageSet == {"script", "audio", "video"}

\* Unique ids uuidv4() can produce in one run.
MaxIds == 2

\* Configurations handed to createVideo or to the CLI "create" action.  ""
\* and 0 stand for a missing (falsy) value.
PipelineConfigs ==
    [groqKey : {"", "gk"}, pexelsKey : {"", "pk"}, freeSoundKey : {"", "fk"},
     category : {"", "Food & Cooking"}, tone : {"", "Friendly/Casual"},
     topic : {"", "AI Technology"}, duration : {0, 15, 17},
     keyTermsDefined : BOOLEAN]

NoPipelineConfig ==
    [groqKey |-> "", pexelsKey |-> "", freeSoundKey |-> "", category |-> "",
     tone |-> "", topic |-> "", duration |-> 0, keyTermsDefined |-> FALSE]

\* A generated file's path: directory, name prefix, unique id, extension.
NoPath == [dir |-> "", prefix |-> "", id |-> 0, ext |-> ""]
AudioPath(u) == [dir |-> "outputDir", prefix |-> "", id |-> u, ext |-> ".mp3"]
FinalPath(u) ==
    [dir |-> "outputDir", prefix |-> "final_", id |-> u, ext |-> ".mp4"]

\* How generateMusic and generateVideo can settle, as createVideo sees it.
AudioOutcomes ==
    {[ok |-> TRUE, error |-> NoError, path |-> AudioPath(u)] :
        u \in 1 .. MaxIds}
    \cup {[ok |-> FALSE,
           error |-> <<"Max retries reached. Failed to generate music.">>,
           path |-> NoPath]}

VideoOutcomes ==
    {[ok |-> TRUE, error |-> NoError, path |-> FinalPath(u)] :
        u \in 1 .. MaxIds}
    \cup {[ok |-> FALSE, error |-> e, path |-> NoPath] :
            e \in {<<"Video file not found">>,
                   <<"Video combining failed: ", "ffmpeg exited with code 1">>}}

\* ---- AudioManager (core/audio.js) ----
\* MAX_RETRIES of generateMusic (a local constant of that method).
MUSIC_MAX_RETRIES == 3

\* CATEGORY_MAPPINGS
CATEGORY_MAPPINGS ==
    [c \in {"Science & Technology", "Sports & Fitness", "Government & Politics",
            "Entertainment & Celebrities", "Education & Learning",
            "Video Games & Esports", "Travel & Tourism", "Health & Wellness",
            "World News", "Business & Finance", "Lifestyle & Culture",
            "Art & Design", "Environment & Sustainability", "Food & Cooking"}
       |-> CASE c = "Science & Technology" ->
                   <<"electronic futuristic", "ambient digital">>
             [] c = "Sports & Fitness" -> <<"energetic upbeat", "fast rhythmic">>
             [] c = "Government & Politics" ->
                   <<"serious news", "dramatic orchestral">>
             [] c = "Entertainment & Celebrities" ->
                   <<"trendy upbeat", "pop dance">>
             [] c = "Education & Learning" ->
                   <<"calm acoustic", "soft background">>
             [] c = "Video Games & Esports" ->
                   <<"retro chiptune", "intense cinematic">>
             [] c = "Travel & Tourism" -> <<"adventure nature", "world upbeat">>
             [] c = "Health & Wellness" ->
                   <<"meditation relaxing", "calm ambient">>
             [] c = "World News" -> <<"news background", "broadcast serious">>
             [] c = "Business & Finance" ->
                   <<"corporate serious", "tech background">>
             [] c = "Lifestyle & Culture" -> <<"lo-fi chill", "smooth modern">>
             [] c = "Art & Design" ->
                   <<"creative atmospheric", "abstract instrumental">>
             [] c = "Environment & Sustainability" ->
                   <<"nature sounds", "peaceful ambient">>
             [] c = "Food & Cooking" -> <<"warm jazzy", "cozy kitchen">>]

\* Categories handed to generateMusic: two mapped ones and one without a
\* mapping.
MusicCategories == {"Food & Cooking", "Science & Technology", "tech"}

\* How the steps of one generateMusic attempt can end.
SearchOutcomes == {"results", "httpError", "noResults", "networkError"}
DownloadOutcomes == {"ok", "httpError", "networkError"}
WriteOutcomes == {"ok", "openError", "writeError"}
ProbeOutcomes == {"ok", "probeError"}
FadeOutcomes == {"end", "engineError"}

\* A raw download and a processed file of generateMusic.
RawPath(u) ==
    [dir |-> "outputDir", prefix |-> "", id |-> u, ext |-> "_raw.mp3"]

\* ---- VideoGenerator (core/video.js) ----
\* Segments handed to createSegment and findSuitableVideo; the last one stands
\* for a call without a segment (undefined).
MaxSegmentId == 2

UndefinedSegment == [defined |-> FALSE, id |-> 0, description |-> "", text |-> ""]

VideoSegments ==
    {[defined |-> TRUE, id |-> i, description |-> "a chef plating pasta",
      text |-> "Fresh pasta cooks in three minutes"] : i \in 1 .. MaxSegmentId}
    \cup {UndefinedSegment}

\* What one stock-video search can answer: the call throws, no videos, a
\* first video without an 'hd' file, or a first video with one.
VideoSearchOutcomes == {"throws", "noVideos", "noHd", "hd"}

\* What findSuitableVideo resolves with; defined = FALSE stands for undefined.
NoVideoFile == [defined |-> FALSE, quality |-> "", query |-> ""]

\* How the download and the engine run of createMediaSegment can end.
ClipDownloadOutcomes == {"ok", "httpError"}
RenderOutcomes == {"end", "engineError"}

\* this.tempDir/segment_<id>.mp4
SegmentPath(id) ==
    [dir |-> "tempDir", prefix |-> "segment_", id |-> id, ext |-> ".mp4"]

\* this.TRANSITION_DURATION (0.5 s); times of the stitcher are counted in
\* tenths of a second.
TRANSITION_DURATION == 5

\* this.TRANSITION_MAPPING
TRANSITION_MAPPING ==
    [t \in {"fade", "dissolve", "slideLeft", "slideRight", "circleWipe",
            "pixelize"}
       |-> CASE t = "fade" -> "fade"
             [] t = "dissolve" -> "fadeblack"
             [] t = "slideLeft" -> "slideleft"
             [] t = "slideRight" -> "slideright"
             [] t = "circleWipe" -> "circleopen"
             [] t = "pixelize" -> "pixelize"]

\* TRANSITION_MAPPING is an object literal, so a lookup also finds the
\* properties it inherits from Object.prototype; these are functions, and a
\* function in the filter template is rendered as its source text.
OBJECT_PROTOTYPE ==
    [k \in {"constructor", "toString", "valueOf", "hasOwnProperty"}
       |-> CASE k = "constructor" -> "function Object() { [native code] }"
             [] k = "toString" -> "function toString() { [native code] }"
             [] k = "valueOf" -> "function valueOf() { [native code] }"
             [] k = "hasOwnProperty" ->
                    "function hasOwnProperty() { [native code] }"]

\* Longest clip list handed to combineVideosWithTransitions.
MaxClips == 3

\* The videoFiles argument: an array of n segment paths, or something that
\* is not an array.
ClipLists ==
    {[isArray |-> TRUE, paths |-> [i \in 1 .. n |-> SegmentPath(i)]] :
        n \in 0 .. MaxClips}
    \cup {[isArray |-> FALSE, paths |-> <<>>]}

\* Entries of the transitions argument: duration (tenths of a second) and
\* transition of a segment; "" stands for a missing transition.
ClipSamples ==
    { [duration |-> 50, transition |-> "dissolve"],
      [duration |-> 50, transition |-> "slideLeft"],
      [duration |-> 2, transition |-> "rotate"],
      [duration |-> 50, transition |-> ""],
      [duration |-> 50, transition |-> "constructor"] }

TransitionLists == UNION {[1 .. n -> ClipSamples] : n \in 0 .. MaxClips}

CombineOutcomes == {"end", "engineError"}

\* this.tempDir/with_transitions_<uuid>.mp4
WithTransitionsPath(u) ==
    [dir |-> "tempDir", prefix |-> "with_transitions_", id |-> u,
     ext |-> ".mp4"]

\* Stream labels of the filter graph: [i:v], vid<i>, xfade<i>, outv.
Label(name, index) == [name |-> name, index |-> index]

NoGraph == [filters |-> <<>>, accumulatedDuration |-> 0,
            previousStream |-> Label("", 0)]

\* ---- VideoGenerator.combineVideoAndAudio ----
\* A file path argument; defined = FALSE stands for undefined.
UndefinedPath == [defined |-> FALSE, name |-> "", ext |-> ""]

FilePath(name, ext) == [defined |-> TRUE, name |-> name, ext |-> ext]

\* The audioPath and videoPath arguments, and the files that can be on disk.
AudioPaths == {FilePath("audio", ".mp3"), FilePath("invalid_audio", ".wav"),
               UndefinedPath}

VideoPaths == {FilePath("video", ".mp4"), FilePath("invalid_video", ".avi"),
               UndefinedPath}

Disks == SUBSET {FilePath("audio", ".mp3"), FilePath("video", ".mp4"),
                 FilePath("invalid_video", ".avi")}

\* The outputPath argument; left out, it defaults to <cwd>/output.mp4.
DefaultOutputPath == FilePath("cwd/output", ".mp4")

OutputPaths == {FilePath("final", ".mp4"), UndefinedPath}

\* How the engine run of combineVideoAndAudio can end, and what the engine
\* reports with an error: err.message and the stderr stream.
MuxOutcomes == {"end", "engineError"}

EngineErrorMessage == "ffmpeg exited with code 1"

EngineStderr == "Conversion failed!"

\* ---- VideoGenerator.generateVideo ----
\* The ids of the segments handed to generateVideo.
GvSegmentLists == UNION {[1 .. n -> 1 .. MaxSegmentId] : n \in 0 .. MaxClips}

\* The audioPath handed to generateVideo, and the audio file on disk.
GvAudioPaths == {FilePath("audio", ".mp3"), UndefinedPath}

GvDisk == {FilePath("audio", ".mp3")}

\* How one createSegment call of generateVideo can settle, and the error a
\* failed one rejects with.
SegmentOutcomes == {"resolved", "rejected"}

SegmentError == <<"FFmpeg failed: ", "ffmpeg exited with code 1">>

\* uuidv4() gives a fresh value on every call: the value of the call that
\* follows the one that returned u.
NextUuid(u) == (u % MaxIds) + 1

VARIABLES
    \* ---- VideoGenerator.combineVideosWithTransitions ----
    cv_pc,              \* idle / running / resolved / rejected
    cv_videoFiles,      \* the videoFiles argument
    cv_transitions,     \* the transitions argument
    cv_outputPath,      \* outputPath
    cv_graph,           \* filters, accumulatedDuration, previousStream
    cv_engineRuns,      \* engine runs started (command.save)
    cv_logged,          \* the 'Sync Error' message logged by the catch block
    cv_result,          \* the path the call resolved with
    cv_error,           \* the message the call rejected with
    \* ---- VideoGenerator.findSuitableVideo ----
    fv_pc,              \* idle / searching / returned / rejected
    fv_segment,         \* the segment argument
    fv_searches,        \* the queries searched so far, in order
    fv_failed,          \* the queries logged as 'Search failed', in order
    fv_result,          \* what findSuitableVideo resolved with
    fv_error,           \* the message findSuitableVideo rejected with
    \* ---- VideoGenerator.createSegment / createMediaSegment ----
    cs_pc,              \* idle / finding / downloading / rendering /
                        \* resolved / rejected
    cs_outputPath,      \* outputPath
    cs_result,          \* the path createSegment resolved with
    cs_error,           \* the message createSegment rejected with
    \* ---- AudioManager.generateMusic ----
    gm_pc,              \* idle / searching / downloading / writing / probing /
                        \* fading / returned / rejected / pending / crashed
    gm_category,        \* params.category
    gm_attempt,         \* attempt
    gm_searches,        \* the search terms queried so far, in order
    gm_logged,          \* n of every 'Attempt n failed' error logged, in order
    gm_caught,          \* the message of the last error the catch block caught
    gm_musicId,         \* musicId of the current attempt (0: none yet)
    gm_files,           \* the files of generateMusic that exist on disk
    gm_result,          \* the path generateMusic returned
    gm_error,           \* the message generateMusic rejected with
    \* ---- createVideo ----
    pl_pc,              \* idle / script / audio / video / done / failed / exited
    pl_entry,           \* none / direct (createVideo) / cli ("create" action)
    pl_config,          \* the config argument
    pl_components,      \* components constructed so far
    pl_stage,           \* per stage: notStarted / inProgress / resolved / rejected
    pl_stageError,      \* per stage: the error its component rejected with
    pl_musicPath,       \* generatedMusicPath
    pl_error,           \* the error createVideo rejected (or exited) with
    pl_result,          \* the path createVideo returned
    \* ---- PromptGenerator.generateScript ----
    gs_pc,              \* idle / calling / backoff / returned / rejected
    gs_config,          \* the config argument
    gs_attempt,         \* the attempt argument of the current invocation
    gs_calls,           \* completion endpoint invocations so far
    gs_delays,          \* delays (ms) passed to this.delay so far
    gs_response,        \* the completion the last invocation received
    gs_result,          \* the value generateScript returned
    gs_error,           \* the message generateScript rejected with
    gs_validation,      \* the message validateConfig threw in this invocation
    gs_logged,          \* the last message the catch block handed to logger.error
    collabFailure,      \* an external collaborator has reported a failure
    \* ---- SimpleBatchProcessor ----
    constructed,        \* a SimpleBatchProcessor has been constructed
    maxConcurrent,      \* this.maxConcurrent (0 before the constructor)
    activeProcesses,    \* this.activeProcesses (Set of task ids)
    queue,              \* this.queue (FIFO array of tasks)
    results,            \* this.results (taskId of every entry, in push order)
    errors,             \* this.errors  (taskId of every entry, in push order)
    started,            \* process() has been called
    count,              \* the count argument of process()
    child,              \* per task: state of its spawned child process
    settled,            \* per task: the promise of processTask is settled
    spawnLog,           \* task ids in the order spawn() was called
    completeLog,        \* one record per emitted 'complete' event
    onceRegistered,     \* process() has registered once('complete', resolve)
    resolved,           \* the promise returned by process() is resolved
    failedTasks,        \* tasks whose child reported a failure
    alive,              \* the controller's Node process is still running
    hasErrorListener,   \* the embedding code registered processor.on('error')
    rejectionsThrow,    \* Node raises unhandled rejections (default since v15)
    uncaughtHandler,    \* the embedding code handles 'uncaughtException'
    \* combineVideoAndAudio
    ca_pc,              \* "idle", "running", "resolved", "rejected"
    ca_audioPath,       \* the audioPath argument
    ca_videoPath,       \* the videoPath argument
    ca_outputPath,      \* the outputPath parameter, default applied
    ca_disk,            \* the files fs.existsSync finds
    ca_existsChecks,    \* the paths fs.existsSync was called with, in order
    ca_engine,          \* "none", "running", "ended", "failed"
    ca_logged,          \* what logger.error was given
    ca_result,          \* the path the call resolved with
    ca_error,           \* the message of the error the call rejected with
    \* generateVideo
    gv_pc,              \* "idle", "segments", "stitching", "muxing",
                        \* "cleaning", "returned", "rejected"
    gv_segments,        \* the ids of the segments argument
    gv_audioPath,       \* the audioPath argument
    gv_seg,             \* per segment: createSegment "running", "resolved"
                        \* or "rejected"
    gv_stitchCalls,     \* calls of combineVideosWithTransitions
    gv_muxCalls,        \* calls of combineVideoAndAudio
    gv_withTransitions, \* the path the stitcher resolved with
    gv_outputPath,      \* final_<uuid>.mp4
    gv_cleanupPaths,    \* the paths handed to cleanup
    gv_unlink,          \* per cleanup path: "pending", "deleted", "failed"
    gv_unlinkLogged,    \* paths of the logged 'Failed to delete' messages
    gv_logged,          \* what the catch block of generateVideo logged
    gv_result,          \* the path generateVideo returned
    gv_error            \* the message of the error generateVideo threw

batchVars == <<constructed, maxConcurrent, activeProcesses, queue, results, errors, started,
               count, child, settled, spawnLog, completeLog, onceRegistered,
               resolved, failedTasks, alive, hasErrorListener, rejectionsThrow,
               uncaughtHandler>>

scriptVars == <<gs_pc, gs_config, gs_attempt, gs_calls, gs_delays, gs_response,
                gs_result, gs_error, gs_validation, gs_logged, collabFailure>>

pipeVars == <<pl_pc, pl_entry, pl_config, pl_components, pl_stage,
              pl_stageError, pl_musicPath, pl_error, pl_result>>

musicVars == <<gm_pc, gm_category, gm_attempt, gm_searches, gm_logged,
               gm_caught, gm_musicId, gm_files, gm_result, gm_error>>

findVars == <<fv_pc, fv_segment, fv_searches, fv_failed, fv_result, fv_error>>

segmentVars == <<cs_pc, cs_outputPath, cs_result, cs_error>>

combineVars == <<cv_pc, cv_videoFiles, cv_transitions, cv_outputPath, cv_graph,
                 cv_engineRuns, cv_logged, cv_result, cv_error>>

muxVars == <<ca_pc, ca_audioPath, ca_videoPath, ca_outputPath, ca_disk,
             ca_existsChecks, ca_engine, ca_logged, ca_result, ca_error>>

generateVars == <<gv_pc, gv_segments, gv_audioPath, gv_seg, gv_stitchCalls,
                  gv_muxCalls, gv_withTransitions, gv_outputPath,
                  gv_cleanupPaths, gv_unlink, gv_unlinkLogged, gv_logged,
                  gv_result, gv_error>>

assemblyVars == <<muxVars, generateVars>>

videoVars == <<findVars, segmentVars, combineVars, assemblyVars>>

vars == <<batchVars, scriptVars, pipeVars, musicVars,
                   assemblyVars, videoVars>>

\* No operation has been called yet.
NothingCalled ==
    /\ ~started /\ gs_pc = "idle" /\ pl_pc = "idle" /\ gm_pc = "idle"
    /\ fv_pc = "idle" /\ cs_pc = "idle" /\ cv_pc = "idle"
    /\ ca_pc = "idle" /\ gv_pc = "idle"

\* No entry point has been used yet.
AllIdle == ~constructed /\ NothingCalled

(***************************************************************************)
(* SimpleBatchProcessor                                                    *)
(***************************************************************************)

\* constructor: options.maxConcurrent || Math.max(1, os.cpus().length - 1)
ConstructorMaxConcurrent(opt, cpus) ==
    IF opt # 0 THEN opt ELSE Max(1, cpus - 1)

\* new SimpleBatchProcessor(options) on a machine with the given number of
\* cpus.
Constructor(opt, cpus) ==
    /\ AllIdle
    /\ constructed' = TRUE
    /\ maxConcurrent' = ConstructorMaxConcurrent(opt, cpus)
    /\ activeProcesses' = {}
    /\ queue' = <<>>
    /\ results' = <<>>
    /\ errors' = <<>>
    /\ UNCHANGED <<started, count, child, settled, spawnLog, completeLog,
                   onceRegistered, resolved, failedTasks, alive,
                   hasErrorListener, rejectionsThrow, uncaughtHandler>>
    /\ UNCHANGED <<scriptVars, pipeVars, musicVars, videoVars>>

\* The while loop of processQueue: shift the head of the queue into the
\* active set and spawn it, as long as the queue is non-empty and the active
\* set is below maxConcurrent.  Returns the queue, the active set and the
\* tasks spawned, in order.
RECURSIVE AdmitLoopOffByOne(_, _, _, _)
AdmitLoopOffByOne(q, a, sp, m) ==
    IF Len(q) > 0 /\ Cardinality(a) <= m
    THEN AdmitLoopOffByOne(Tail(q), a \cup {Head(q)}, Append(sp, Head(q)), m)
    ELSE [queue |-> q, active |-> a, spawned |-> sp]

RECURSIVE AdmitLoopPop(_, _, _, _)
AdmitLoopPop(q, a, sp, m) ==
    IF Len(q) > 0 /\ Cardinality(a) < m
    THEN AdmitLoopPop(SubSeq(q, 1, Len(q) - 1), a \cup {q[Len(q)]},
                      Append(sp, q[Len(q)]), m)
    ELSE [queue |-> q, active |-> a, spawned |-> sp]

RECURSIVE AdmitLoop(_, _, _, _)
AdmitLoop(q, a, sp, m) ==
    IF Len(q) > 0 /\ Cardinality(a) < m
    THEN AdmitLoop(Tail(q), a \cup {Head(q)}, Append(sp, Head(q)), m)
    ELSE [queue |-> q, active |-> a, spawned |-> sp]

\* processQueue(), called with the queue q, active set a and child states ch
\* the calling handler has produced so far; res/errs are the lists at that
\* moment.  crash is TRUE when the calling handler leaves an unhandled
\* rejection that ends the process once the handler has returned.
ProcessQueue(q, a, ch, res, errs, crash) ==
    LET r == AdmitLoop(q, a, <<>>, maxConcurrent)
        complete == Len(r.queue) = 0 /\ Cardinality(r.active) = 0
    IN  /\ queue' = r.queue
        /\ activeProcesses' = r.active
        /\ spawnLog' = spawnLog \o r.spawned
        /\ child' = [t \in TaskIds |->
                        IF t \in Range(r.spawned) THEN "running" ELSE ch[t]]
        /\ completeLog' =
              IF complete
              THEN Append(completeLog,
                          [results |-> res, errors |-> errs,
                           queued |-> Len(r.queue),
                           active |-> Cardinality(r.active)])
              ELSE completeLog
        /\ resolved' = (resolved \/ (complete /\ onceRegistered))
        /\ alive' = ~crash

\* this.emit("error", ...) on an EventEmitter without an 'error' listener
\* throws; the rest of the calling handler is skipped.
EmitErrorThrows == ~hasErrorListener

\* An exception that leaves a handler, or a rejected promise nobody handles
\* (processQueue drops the promise of processTask), ends the process unless
\* the embedding code handles 'uncaughtException'.
ThrowIsFatal == ~uncaughtHandler
RejectionIsFatal == rejectionsThrow /\ ~uncaughtHandler

\* process(baseConfig, count): build the tasks, push them, run processQueue
\* synchronously, then register once('complete', resolve).  The environment
\* the batch runs in (which listeners the embedding code has registered by
\* now, how the runtime treats unhandled rejections) is fixed at this call.
Process(n) ==
    /\ alive /\ constructed /\ NothingCalled
    /\ hasErrorListener' \in BOOLEAN
    /\ rejectionsThrow' \in BOOLEAN
    /\ uncaughtHandler' \in BOOLEAN
    /\ started' = TRUE
    /\ count' = n
    /\ ProcessQueue(queue \o [i \in 1 .. n |-> i - 1], activeProcesses, child,
                    results, errors, FALSE)
    /\ onceRegistered' = TRUE
    /\ UNCHANGED <<constructed, maxConcurrent, results, errors, settled,
                   failedTasks>>
    /\ UNCHANGED <<scriptVars, pipeVars, musicVars, videoVars>>

\* childProcess.on("close", code): the child's stdio has closed.  A child
\* that was spawned exits with 0 or 1; a child whose spawn failed ('error'
\* was emitted) closes with the negative errno.
ChildClose(t, code) ==
    /\ alive
    /\ \/ child[t] = "running" /\ code \in {0, 1}
       \/ child[t] = "errored" /\ code < 0
    /\ LET a1 == activeProcesses \ {t}
           ch1 == [child EXCEPT ![t] = "closed"]
       IN  IF code = 0
           THEN /\ results' = Append(results, t)
                /\ settled' = [settled EXCEPT ![t] = TRUE]
                /\ ProcessQueue(queue, a1, ch1, results', errors, FALSE)
                /\ UNCHANGED <<errors, failedTasks>>
           ELSE /\ errors' = Append(errors, t)
                /\ failedTasks' = failedTasks \cup {t}
                /\ UNCHANGED results
                /\ IF EmitErrorThrows
                   THEN /\ activeProcesses' = a1
                        /\ child' = ch1
                        /\ alive' = ~ThrowIsFatal
                        /\ UNCHANGED <<queue, spawnLog, completeLog, resolved,
                                       settled>>
                   ELSE /\ settled' = [settled EXCEPT ![t] = TRUE]
                        /\ ProcessQueue(queue, a1, ch1, results, errors',
                                        ~settled[t] /\ RejectionIsFatal)
    /\ UNCHANGED <<constructed, maxConcurrent, started, count, onceRegistered,
                   hasErrorListener, rejectionsThrow, uncaughtHandler>>
    /\ UNCHANGED <<scriptVars, pipeVars, musicVars, videoVars>>

\* childProcess.on("error", error): the child could not be spawned.
ChildError(t) ==
    /\ alive
    /\ child[t] = "running"
    /\ errors' = Append(errors, t)
    /\ failedTasks' = failedTasks \cup {t}
    /\ settled' = [settled EXCEPT ![t] = TRUE]
    /\ ProcessQueue(queue, activeProcesses \ {t},
                    [child EXCEPT ![t] = "errored"], results, errors',
                    RejectionIsFatal)
    /\ UNCHANGED <<constructed, maxConcurrent, results, started, count,
                   onceRegistered, hasErrorListener, rejectionsThrow,
                   uncaughtHandler>>
    /\ UNCHANGED <<scriptVars, pipeVars, musicVars, videoVars>>


(***************************************************************************)
(* PromptGenerator (core/script.js)                                        *)
(***************************************************************************)

\* String.prototype.includes on a message built from pieces.
Includes(message, piece) == \E i \in 1 .. Len(message) : message[i] = piece

ShouldRetryAnyError(message) == Len(message) > 0

\* shouldRetry(error)
ShouldRetry(message) ==
    \E e \in {"Invalid JSON response", "Empty response from model",
              "Unexpected end of JSON input"} : Includes(message, e)

\* validateConfig(config): the message of the error it throws, NoError when
\* it returns.
ValidateConfig(config) ==
    LET missing ==
            (IF config.duration = 0 THEN <<"duration">> ELSE <<>>)
            \o (IF config.category = "" THEN <<"category">> ELSE <<>>)
            \o (IF config.tone = "" THEN <<"tone">> ELSE <<>>)
            \o (IF config.style = "" THEN <<"style">> ELSE <<>>)
    IN  IF Len(missing) > 0
        THEN <<"Missing required fields: ">> \o missing
        ELSE IF config.duration % SEGMENT_DURATION # 0
             THEN <<"Duration must be divisible by 5">>
             ELSE NoError

\* generateUserPrompt(config) evaluates config.keyTerms.join(", "), which
\* throws a TypeError when keyTerms is undefined.
GenerateUserPromptError(config) ==
    IF config.keyTermsDefined THEN NoError
    ELSE <<"Cannot read properties of undefined (reading 'join')">>

\* SegmentSchema
SegmentSchema(seg) ==
    /\ seg.id > 0
    /\ seg.textLen >= MIN_TEXT
    /\ seg.duration = SEGMENT_DURATION
    /\ seg.descLen >= MIN_DESCRIPTION
    /\ seg.transition \in TransitionEnum

ScriptSchemaNoMinimum(segments) ==
    \A i \in 1 .. Len(segments) : SegmentSchema(segments[i])

\* ScriptSchema
ScriptSchema(segments) ==
    /\ Len(segments) >= MIN_SEGMENTS
    /\ \A i \in 1 .. Len(segments) : SegmentSchema(segments[i])

\* validateResponse(completion): the message of the error it throws, NoError
\* when it returns result.data.
ValidateResponse(completion) ==
    IF completion.kind \in {"empty", "emptyObject"}
    THEN <<"Empty response from model">>
    ELSE IF completion.kind = "notJson"
         THEN <<"Invalid JSON response", ": ", "Unexpected token">>
         ELSE IF ~ScriptSchema(completion.segments)
              THEN <<"Invalid JSON response", ": ", "Invalid JSON structure">>
              ELSE NoError

\* The message the catch block of generateScript logs for a caught error.
AttemptFailed(message, attempt) ==
    <<"Attempt ", ToString(attempt + 1), " failed: ">> \o message

\* The catch block of generateScript(config, attempt) for a caught error with
\* the given message: log it, then either delay and retry or throw the
\* generic error.
GsCatchOneMoreRetry(message, attempt) ==
    /\ gs_logged' = AttemptFailed(message, attempt)
    /\ IF ShouldRetry(message) /\ attempt <= MAX_RETRIES
       THEN /\ gs_pc' = "backoff"
            /\ gs_delays' = Append(gs_delays, 1000 * (attempt + 1))
            /\ UNCHANGED <<gs_result, gs_error>>
       ELSE /\ gs_pc' = "rejected"
            /\ gs_error' = LLM_ERROR_MESSAGE
            /\ UNCHANGED <<gs_result, gs_delays>>

GsCatchRethrows(message, attempt) ==
    /\ gs_logged' = AttemptFailed(message, attempt)
    /\ IF ShouldRetry(message) /\ attempt < MAX_RETRIES
       THEN /\ gs_pc' = "backoff"
            /\ gs_delays' = Append(gs_delays, 1000 * (attempt + 1))
            /\ UNCHANGED <<gs_result, gs_error>>
       ELSE /\ gs_pc' = "rejected"
            /\ gs_error' = message
            /\ UNCHANGED <<gs_result, gs_delays>>

GsCatch(message, attempt) ==
    /\ gs_logged' = AttemptFailed(message, attempt)
    /\ IF ShouldRetry(message) /\ attempt < MAX_RETRIES
       THEN /\ gs_pc' = "backoff"
            /\ gs_delays' = Append(gs_delays, 1000 * (attempt + 1))
            /\ UNCHANGED <<gs_result, gs_error>>
       ELSE /\ gs_pc' = "rejected"
            /\ gs_error' = LLM_ERROR_MESSAGE
            /\ UNCHANGED <<gs_result, gs_delays>>

\* What one invocation generateScript(config, attempt) does before it first
\* suspends: validateConfig, building the prompt, starting the completion
\* call.  An exception goes to the catch block (GsCatch).
GsInvoke(config, attempt) ==
    /\ gs_config' = config
    /\ gs_attempt' = attempt
    /\ gs_response' = NoCompletion
    /\ gs_validation' = ValidateConfig(config)
    /\ UNCHANGED collabFailure
    /\ IF ValidateConfig(config) # NoError
       THEN GsCatch(ValidateConfig(config), attempt) /\ UNCHANGED gs_calls
       ELSE IF GenerateUserPromptError(config) # NoError
            THEN GsCatch(GenerateUserPromptError(config), attempt)
                 /\ UNCHANGED gs_calls
            ELSE /\ gs_pc' = "calling"
                 /\ gs_calls' = gs_calls + 1
                 /\ UNCHANGED <<gs_result, gs_error, gs_delays, gs_logged>>

\* A direct call generateScript(config).
GenerateScript(config) ==
    /\ AllIdle
    /\ GsInvoke(config, 0)
    /\ UNCHANGED <<batchVars, pipeVars, musicVars, videoVars>>

\* The completion call settles with completion c: validateResponse, then
\* either return or the catch block.
CompletionSettles(c) ==
    /\ gs_pc = "calling"
    /\ gs_response' = c
    /\ collabFailure' =
          (collabFailure \/ c.kind = "apiError"
             \/ ValidateResponse(c) # NoError)
    /\ UNCHANGED <<gs_config, gs_attempt, gs_calls, gs_validation>>
    /\ IF c.kind = "apiError"
       THEN GsCatch(c.message, gs_attempt)
       ELSE IF ValidateResponse(c) # NoError
            THEN GsCatch(ValidateResponse(c), gs_attempt)
            ELSE /\ gs_pc' = "returned"
                 /\ gs_result' = [segments |-> c.segments]
                 /\ UNCHANGED <<gs_error, gs_delays, gs_logged>>
    /\ UNCHANGED <<batchVars, pipeVars, musicVars, videoVars>>

\* The backoff delay has elapsed: generateScript(config, attempt + 1).
BackoffElapses ==
    /\ gs_pc = "backoff"
    /\ GsInvoke(gs_config, gs_attempt + 1)
    /\ UNCHANGED <<batchVars, pipeVars, musicVars, videoVars>>

(***************************************************************************)
(* createVideo (src/index.js) and the CLI "create" action (bin/cli.js)     *)
(***************************************************************************)

\* validateCoreConfig(config): the message of the error it throws, NoError
\* when it returns.
ValidateCoreConfig(config) ==
    LET missing ==
            (IF config.freeSoundKey = "" THEN <<"FreeSound API Key">> ELSE <<>>)
            \o (IF config.groqKey = "" THEN <<"GROQ API Key">> ELSE <<>>)
            \o (IF config.pexelsKey = "" THEN <<"Pexels API Key">> ELSE <<>>)
            \o (IF config.category = "" THEN <<"Category">> ELSE <<>>)
            \o (IF config.tone = "" THEN <<"Tone">> ELSE <<>>)
            \o (IF config.topic = "" THEN <<"Topic">> ELSE <<>>)
    IN  IF Len(missing) > 0
        THEN <<"Missing required configuration: ">> \o missing
        ELSE NoError

\* The two checks at the top of createVideo: the message logged before
\* process.exit(1), NoError when both pass.
CreateVideoChecks(config) ==
    IF config.groqKey = "" \/ config.pexelsKey = "" \/ config.freeSoundKey = ""
    THEN <<"Missing API keys. Please check your configuration">>
    ELSE IF config.category = "" \/ config.tone = ""
         THEN <<"Category or Tone Missing from the config">>
         ELSE NoError

\* The config createVideo hands to generateScript: duration, tone, topic,
\* category, keyTerms and requireFactChecking, never a style.
ScriptConfigOf(config) ==
    [duration |-> config.duration, category |-> config.category,
     tone |-> config.tone, style |-> "", topic |-> config.topic,
     keyTermsDefined |-> config.keyTermsDefined]

\* Stages whose runWithLoader is called before createVideo first suspends:
\* every later stage is behind an await.
StagesStartedAtCallNoAwait == {"script", "audio"}

StagesStartedAtCall == {"script"}

\* The stage createVideo starts once the given stage's loader has resolved.
StageAfter(stage) ==
    CASE stage = "script" -> "audio"
      [] stage = "audio" -> "video"
      [] stage = "video" -> "done"

\* Logger.runWithLoader: resolves with what the wrapped method returned (the
\* stage closures return nothing; their result travels in generatedXxx) or
\* rejects with the very error the method threw.
RunWithLoaderWraps(outcome) ==
    [ok |-> outcome.ok,
     error |-> IF outcome.ok THEN outcome.error
               ELSE <<"Stage failed: ">> \o outcome.error,
     path |-> NoPath]

RunWithLoader(outcome) ==
    [ok |-> outcome.ok, error |-> outcome.error, path |-> NoPath]

\* createVideo(config) up to its first suspension.
CreateVideoCall(config, entry) ==
    /\ pl_config' = config
    /\ pl_entry' = entry
    /\ UNCHANGED <<pl_stageError, pl_musicPath, pl_result>>
    /\ IF CreateVideoChecks(config) # NoError
       THEN /\ pl_pc' = "exited"
            /\ pl_error' = CreateVideoChecks(config)
            /\ UNCHANGED <<pl_components, pl_stage, scriptVars>>
       ELSE /\ pl_components' =
                  {"scriptGenerator", "audioGenerator", "videoGenerator"}
            /\ pl_pc' = "script"
            /\ pl_error' = NoError
            /\ pl_stage' = [s \in StageSet |->
                              IF s \in StagesStartedAtCall
                              THEN "inProgress" ELSE "notStarted"]
            /\ GsInvoke(ScriptConfigOf(config), 0)

\* A direct call createVideo(config).
CreateVideo(config) ==
    /\ AllIdle
    /\ CreateVideoCall(config, "direct")
    /\ UNCHANGED <<batchVars, musicVars, videoVars>>

\* The "create" action with --webRunner: validateCoreConfig, then
\* processVideoCreation, which calls createVideo.
CliCreate(config) ==
    /\ AllIdle
    /\ IF ValidateCoreConfig(config) # NoError
       THEN /\ pl_pc' = "exited"
            /\ pl_entry' = "cli"
            /\ pl_config' = config
            /\ pl_error' = ValidateCoreConfig(config)
            /\ UNCHANGED <<pl_components, pl_stage, pl_stageError,
                           pl_musicPath, pl_result, scriptVars>>
       ELSE CreateVideoCall(config, "cli")
    /\ UNCHANGED <<batchVars, musicVars, videoVars>>

\* How the stage in progress can settle: the script stage as generateScript
\* settled, the other two as their collaborators decide.
StageOutcomes(stage) ==
    CASE stage = "script" ->
            IF gs_pc = "returned"
            THEN {[ok |-> TRUE, error |-> NoError, path |-> NoPath]}
            ELSE IF gs_pc = "rejected"
                 THEN {[ok |-> FALSE, error |-> gs_error, path |-> NoPath]}
                 ELSE {}
      [] stage = "audio" -> AudioOutcomes
      [] stage = "video" -> VideoOutcomes

\* createVideo resumes after the awaited loader of the current stage has
\* settled: a rejection ends createVideo, a resolution starts the next stage
\* or returns generatedVideoPath.
CreateVideoResume(outcome) ==
    /\ pl_pc \in StageSet
    /\ outcome \in StageOutcomes(pl_pc)
    /\ LET loader == RunWithLoader(outcome)
           next == StageAfter(pl_pc)
       IN  /\ pl_stageError' = [pl_stageError EXCEPT ![pl_pc] = outcome.error]
           /\ pl_musicPath' =
                 IF pl_pc = "audio" /\ outcome.ok THEN outcome.path
                 ELSE pl_musicPath
           /\ IF loader.ok
              THEN /\ pl_pc' = next
                   /\ pl_stage' =
                         [s \in StageSet |->
                            IF s = pl_pc
                            THEN (IF outcome.ok THEN "resolved"
                                  ELSE "rejected")
                            ELSE IF s = next THEN "inProgress"
                                 ELSE pl_stage[s]]
                   /\ pl_result' =
                         IF next = "done" THEN outcome.path ELSE pl_result
                   /\ UNCHANGED pl_error
              ELSE /\ pl_pc' = "failed"
                   /\ pl_stage' = [pl_stage EXCEPT ![pl_pc] = "rejected"]
                   /\ pl_error' = loader.error
                   /\ UNCHANGED pl_result
    /\ collabFailure' = (collabFailure \/ (pl_pc # "script" /\ ~outcome.ok))
    /\ UNCHANGED <<pl_entry, pl_config, pl_components>>
    /\ UNCHANGED <<gs_pc, gs_config, gs_attempt, gs_calls, gs_delays,
                   gs_response, gs_result, gs_error, gs_validation,
                   gs_logged>>
    /\ UNCHANGED <<batchVars, musicVars, videoVars>>

(***************************************************************************)
(* AudioManager.generateMusic (core/audio.js)                              *)
(***************************************************************************)

\* getSearchTerms(category)
GetSearchTerms(category) ==
    IF category \in DOMAIN CATEGORY_MAPPINGS
    THEN CATEGORY_MAPPINGS[category]
    ELSE <<"background music", "cinematic instrumental">>

SearchTermAlwaysFirst(searchTerms, attempt) == searchTerms[1]

\* searchTerms[attempt] || "background music cinematic instrumental"
SearchTerm(searchTerms, attempt) ==
    IF attempt < Len(searchTerms)
    THEN searchTerms[attempt + 1]
    ELSE "background music cinematic instrumental"

\* The catch block of the retry loop for a caught error with the given
\* message: log 'Attempt n failed', count the attempt, then either throw the
\* aggregate error or go round the loop again, which starts the next search.
GmCatchOffByOne(message) ==
    /\ gm_logged' = Append(gm_logged, gm_attempt + 1)
    /\ gm_caught' = message
    /\ gm_attempt' = gm_attempt + 1
    /\ IF gm_attempt + 1 > MUSIC_MAX_RETRIES
       THEN /\ gm_pc' = "rejected"
            /\ gm_error' = <<"Max retries reached. Failed to generate music.">>
            /\ UNCHANGED gm_searches
       ELSE /\ gm_pc' = "searching"
            /\ gm_searches' =
                  Append(gm_searches,
                         SearchTerm(GetSearchTerms(gm_category), gm_attempt + 1))
            /\ UNCHANGED gm_error

GmCatch(message) ==
    /\ gm_logged' = Append(gm_logged, gm_attempt + 1)
    /\ gm_caught' = message
    /\ gm_attempt' = gm_attempt + 1
    /\ IF gm_attempt + 1 >= MUSIC_MAX_RETRIES
       THEN /\ gm_pc' = "rejected"
            /\ gm_error' = <<"Max retries reached. Failed to generate music.">>
            /\ UNCHANGED gm_searches
       ELSE /\ gm_pc' = "searching"
            /\ gm_searches' =
                  Append(gm_searches,
                         SearchTerm(GetSearchTerms(gm_category), gm_attempt + 1))
            /\ UNCHANGED gm_error

\* generateMusic({category}) up to the first search request.
GenerateMusic(category) ==
    /\ AllIdle
    /\ gm_category' = category
    /\ gm_attempt' = 0
    /\ gm_pc' = "searching"
    /\ gm_searches' = <<SearchTerm(GetSearchTerms(category), 0)>>
    /\ UNCHANGED <<gm_logged, gm_caught, gm_musicId, gm_files, gm_result,
                   gm_error>>
    /\ UNCHANGED <<batchVars, scriptVars, pipeVars, videoVars>>

\* The search request settles: a track is selected, the file names are
\* built from a fresh musicId and the download starts; or the attempt fails.
SearchSettles(o) ==
    /\ gm_pc = "searching"
    /\ IF o = "results"
       THEN /\ gm_musicId' = gm_musicId + 1
            /\ gm_pc' = "downloading"
            /\ UNCHANGED <<gm_attempt, gm_searches, gm_logged, gm_caught,
                           gm_error>>
       ELSE /\ GmCatch(CASE o = "httpError" -> <<"API request failed: ", "500">>
                         [] o = "noResults" -> <<"No results found">>
                         [] o = "networkError" -> <<"fetch failed">>)
            /\ UNCHANGED gm_musicId
    /\ UNCHANGED <<gm_category, gm_files, gm_result>>
    /\ UNCHANGED <<batchVars, scriptVars, pipeVars, videoVars>>

\* The download request settles.
DownloadSettles(o) ==
    /\ gm_pc = "downloading"
    /\ IF o = "ok"
       THEN /\ gm_pc' = "writing"
            /\ UNCHANGED <<gm_attempt, gm_searches, gm_logged, gm_caught,
                           gm_error>>
       ELSE GmCatch(CASE o = "httpError" -> <<"Audio download failed: ", "404">>
                      [] o = "networkError" -> <<"fetch failed">>)
    /\ UNCHANGED <<gm_category, gm_musicId, gm_files, gm_result>>
    /\ UNCHANGED <<batchVars, scriptVars, pipeVars, videoVars>>

\* pipeline(audioResponse.body, fs.createWriteStream(rawPath)) settles: the
\* raw file is on disk (whole, or in part when the stream broke), or it
\* could not be opened at all.  On success applyFadeEffects starts by
\* probing the raw file's duration.
WriteSettles(o) ==
    /\ gm_pc = "writing"
    /\ gm_files' = IF o = "openError" THEN gm_files
                   ELSE gm_files \cup {RawPath(gm_musicId)}
    /\ IF o = "ok"
       THEN /\ gm_pc' = "probing"
            /\ UNCHANGED <<gm_attempt, gm_searches, gm_logged, gm_caught,
                           gm_error>>
       ELSE GmCatch(CASE o = "openError" -> <<"ENOENT: no such file or directory">>
                      [] o = "writeError" -> <<"Premature close">>)
    /\ UNCHANGED <<gm_category, gm_musicId, gm_result>>
    /\ UNCHANGED <<batchVars, scriptVars, pipeVars, videoVars>>

\* getAudioDuration settles inside the async executor of applyFadeEffects.
\* When it rejects, the executor's own promise rejects and neither resolve
\* nor reject is ever called: generateMusic stays pending, or the unhandled
\* rejection ends the process.
ProbeSettles(o) ==
    /\ gm_pc = "probing"
    /\ IF o = "ok" THEN gm_pc' = "fading"
       ELSE gm_pc' \in {"pending", "crashed"}
    /\ UNCHANGED <<gm_category, gm_attempt, gm_searches, gm_logged, gm_caught,
                   gm_musicId, gm_files, gm_result, gm_error>>
    /\ UNCHANGED <<batchVars, scriptVars, pipeVars, videoVars>>

\* The engine pass settles.  On 'end' the processed file exists and
\* fs.unlinkSync(rawPath) runs: it removes the raw file, or throws into the
\* catch block.  On 'error' applyFadeEffects rejects into the catch block.
FadeSettles(o, unlinkOk) ==
    /\ gm_pc = "fading"
    /\ IF o = "end"
       THEN IF unlinkOk
            THEN /\ gm_files' = (gm_files \ {RawPath(gm_musicId)})
                                   \cup {AudioPath(gm_musicId)}
                 /\ gm_pc' = "returned"
                 /\ gm_result' = AudioPath(gm_musicId)
                 /\ UNCHANGED <<gm_attempt, gm_searches, gm_logged, gm_caught,
                                gm_error>>
            ELSE /\ gm_files' = gm_files \cup {AudioPath(gm_musicId)}
                 /\ GmCatch(<<"EPERM: operation not permitted, unlink">>)
                 /\ UNCHANGED gm_result
       ELSE /\ GmCatch(<<"ffmpeg exited with code 1">>)
            /\ UNCHANGED <<gm_files, gm_result>>
    /\ UNCHANGED <<gm_category, gm_musicId>>
    /\ UNCHANGED <<batchVars, scriptVars, pipeVars, videoVars>>

(***************************************************************************)
(* VideoGenerator.findSuitableVideo, createSegment (core/video.js)         *)
(***************************************************************************)

\* searchQueries
SearchQueries(segment) ==
    <<segment.description, segment.text, "background", "nature", "landscape",
      "abstract", "minimalist">>

\* What findSuitableVideo does once the for loop has gone through every
\* query without returning: the function ends and resolves with undefined.
LoopExhausted ==
    /\ fv_pc' = "returned"
    /\ fv_result' = NoVideoFile
    /\ UNCHANGED fv_error

\* findSuitableVideo(segment) up to its first search.  Without a segment,
\* building searchQueries throws into the outer catch, whose log line reads
\* the loop variable query, which is not in scope there: a ReferenceError
\* leaves the catch block before its own throw is reached.
FvCall(segment) ==
    /\ fv_segment' = segment
    /\ UNCHANGED <<fv_failed, fv_result>>
    /\ IF segment.defined
       THEN /\ fv_pc' = "searching"
            /\ fv_searches' = <<SearchQueries(segment)[1]>>
            /\ UNCHANGED fv_error
       ELSE /\ fv_pc' = "rejected"
            /\ fv_error' = <<"query is not defined">>
            /\ UNCHANGED fv_searches

\* A direct call findSuitableVideo(segment).
FindSuitableVideo(segment) ==
    /\ AllIdle
    /\ FvCall(segment)
    /\ UNCHANGED <<batchVars, scriptVars, pipeVars, musicVars,
                   assemblyVars, segmentVars,
                   combineVars>>

\* VideoSearchSettles in which a search that throws ends the loop.
VideoSearchSettlesThrowAborts(o) ==
    /\ fv_pc = "searching"
    /\ LET queries == SearchQueries(fv_segment)
           n == Len(fv_searches)
       IN  /\ fv_failed' = IF o = "throws"
                           THEN Append(fv_failed, queries[n])
                           ELSE fv_failed
           /\ IF o = "hd"
              THEN /\ fv_pc' = "returned"
                   /\ fv_result' = [defined |-> TRUE, quality |-> "hd",
                                    query |-> queries[n]]
                   /\ UNCHANGED <<fv_searches, fv_error>>
              ELSE IF n < Len(queries) /\ o # "throws"
                   THEN /\ fv_searches' = Append(fv_searches, queries[n + 1])
                        /\ UNCHANGED <<fv_pc, fv_result, fv_error>>
                   ELSE /\ LoopExhausted
                        /\ UNCHANGED fv_searches
    /\ UNCHANGED fv_segment
    /\ UNCHANGED <<batchVars, scriptVars, pipeVars, musicVars,
                   assemblyVars, segmentVars,
                   combineVars>>

\* The search for the current query settles: return on an 'hd' file of the
\* first video; otherwise (logging the query when the search threw) go on
\* to the next query, or leave the loop after the last one.
VideoSearchSettles(o) ==
    /\ fv_pc = "searching"
    /\ LET queries == SearchQueries(fv_segment)
           n == Len(fv_searches)
       IN  /\ fv_failed' = IF o = "throws"
                           THEN Append(fv_failed, queries[n])
                           ELSE fv_failed
           /\ IF o = "hd"
              THEN /\ fv_pc' = "returned"
                   /\ fv_result' = [defined |-> TRUE, quality |-> "hd",
                                    query |-> queries[n]]
                   /\ UNCHANGED <<fv_searches, fv_error>>
              ELSE IF n < Len(queries)
                   THEN /\ fv_searches' = Append(fv_searches, queries[n + 1])
                        /\ UNCHANGED <<fv_pc, fv_result, fv_error>>
                   ELSE /\ LoopExhausted
                        /\ UNCHANGED fv_searches
    /\ UNCHANGED fv_segment
    /\ UNCHANGED <<batchVars, scriptVars, pipeVars, musicVars,
                   assemblyVars, segmentVars,
                   combineVars>>

\* createSegment(segment): build segment_<id>.mp4 in the temp directory and
\* call createMediaSegment, which awaits findSuitableVideo(segment).
CreateSegment(segment) ==
    /\ AllIdle
    /\ IF segment.defined
       THEN /\ cs_outputPath' = SegmentPath(segment.id)
            /\ cs_pc' = "finding"
            /\ FvCall(segment)
            /\ UNCHANGED <<cs_result, cs_error>>
       ELSE /\ cs_pc' = "rejected"
            /\ cs_error' =
                  <<"Cannot read properties of undefined (reading 'id')">>
            /\ UNCHANGED <<cs_outputPath, cs_result, findVars>>
    /\ UNCHANGED <<batchVars, scriptVars, pipeVars, musicVars,
                   assemblyVars, combineVars>>

\* createMediaSegment resumes after findSuitableVideo has settled: a
\* rejection is logged and rethrown; a result is destructured (a TypeError
\* when it is undefined) and the download of videoFile.link starts.
CreateMediaSegmentResume ==
    /\ cs_pc = "finding"
    /\ fv_pc \in {"returned", "rejected"}
    /\ IF fv_pc = "rejected"
       THEN cs_pc' = "rejected" /\ cs_error' = fv_error
       ELSE IF ~fv_result.defined
            THEN /\ cs_pc' = "rejected"
                 /\ cs_error' = <<"Cannot destructure property 'videoFile' of ",
                                 "'(intermediate value)' as it is undefined.">>
            ELSE cs_pc' = "downloading" /\ UNCHANGED cs_error
    /\ UNCHANGED <<cs_outputPath, cs_result, findVars>>
    /\ UNCHANGED <<batchVars, scriptVars, pipeVars, musicVars,
                   assemblyVars, combineVars>>

\* The download of the stock video settles; on success the temporary video
\* and text files are written and the engine run starts.
ClipDownloadSettles(o) ==
    /\ cs_pc = "downloading"
    /\ IF o = "ok"
       THEN cs_pc' = "rendering" /\ UNCHANGED cs_error
       ELSE /\ cs_pc' = "rejected"
            /\ cs_error' = <<"Failed to download video. HTTP Status: ", "404">>
    /\ UNCHANGED <<cs_outputPath, cs_result, findVars>>
    /\ UNCHANGED <<batchVars, scriptVars, pipeVars, musicVars,
                   assemblyVars, combineVars>>

\* The engine run of createMediaSegment ends or fails.
RenderSettles(o) ==
    /\ cs_pc = "rendering"
    /\ IF o = "end"
       THEN /\ cs_pc' = "resolved"
            /\ cs_result' = cs_outputPath
            /\ UNCHANGED cs_error
       ELSE /\ cs_pc' = "rejected"
            /\ cs_error' = <<"FFmpeg failed: ", "ffmpeg exited with code 1">>
            /\ UNCHANGED cs_result
    /\ UNCHANGED <<cs_outputPath, findVars>>
    /\ UNCHANGED <<batchVars, scriptVars, pipeVars, musicVars,
                   assemblyVars, combineVars>>

(***************************************************************************)
(* VideoGenerator.combineVideosWithTransitions (core/video.js)             *)
(***************************************************************************)

\* this.TRANSITION_MAPPING[transitions[index - 1].transition || "fade"]
\*     || "fade"
TransitionType(transition) ==
    LET segmentTransition == IF transition = "" THEN "fade" ELSE transition
    IN  IF segmentTransition \in DOMAIN TRANSITION_MAPPING
        THEN TRANSITION_MAPPING[segmentTransition]
        ELSE IF segmentTransition \in DOMAIN OBJECT_PROTOTYPE
             THEN OBJECT_PROTOTYPE[segmentTransition]
             ELSE "fade"

\* GraphStep without the overlap: the accumulated duration grows by the
\* whole clip.
GraphStepNoOverlap(graph, transitions, index) ==
    LET duration == transitions[index + 1].duration
        chain == [filter |-> "trim", inputs |-> <<Label("v", index)>>,
                  output |-> Label("vid", index), transition |-> "",
                  offset |-> 0, duration |-> duration]
    IN  IF index = 0
        THEN [filters |-> Append(graph.filters, chain),
              accumulatedDuration |-> duration,
              previousStream |-> Label("vid", index)]
        ELSE LET offset == graph.accumulatedDuration - TRANSITION_DURATION
                 xfade == [filter |-> "xfade",
                           inputs |-> <<graph.previousStream,
                                        Label("vid", index)>>,
                           output |-> Label("xfade", index),
                           transition |->
                               TransitionType(transitions[index].transition),
                           offset |-> IF offset < 0 THEN 0 ELSE offset,
                           duration |-> TRANSITION_DURATION]
             IN  [filters |-> graph.filters \o <<chain, xfade>>,
                  accumulatedDuration |-> graph.accumulatedDuration + duration,
                  previousStream |-> Label("xfade", index)]

\* GraphStep without the clamp of the offset.
GraphStepNoClamp(graph, transitions, index) ==
    LET duration == transitions[index + 1].duration
        chain == [filter |-> "trim", inputs |-> <<Label("v", index)>>,
                  output |-> Label("vid", index), transition |-> "",
                  offset |-> 0, duration |-> duration]
    IN  IF index = 0
        THEN [filters |-> Append(graph.filters, chain),
              accumulatedDuration |-> duration,
              previousStream |-> Label("vid", index)]
        ELSE LET offset == graph.accumulatedDuration - TRANSITION_DURATION
                 xfade == [filter |-> "xfade",
                           inputs |-> <<graph.previousStream,
                                        Label("vid", index)>>,
                           output |-> Label("xfade", index),
                           transition |->
                               TransitionType(transitions[index].transition),
                           offset |-> offset,
                           duration |-> TRANSITION_DURATION]
             IN  [filters |-> graph.filters \o <<chain, xfade>>,
                  accumulatedDuration |->
                      graph.accumulatedDuration + duration - TRANSITION_DURATION,
                  previousStream |-> Label("xfade", index)]

\* GraphStep taking the transition of the clip being joined.
GraphStepOwnTransition(graph, transitions, index) ==
    LET duration == transitions[index + 1].duration
        chain == [filter |-> "trim", inputs |-> <<Label("v", index)>>,
                  output |-> Label("vid", index), transition |-> "",
                  offset |-> 0, duration |-> duration]
    IN  IF index = 0
        THEN [filters |-> Append(graph.filters, chain),
              accumulatedDuration |-> duration,
              previousStream |-> Label("vid", index)]
        ELSE LET offset == graph.accumulatedDuration - TRANSITION_DURATION
                 xfade == [filter |-> "xfade",
                           inputs |-> <<graph.previousStream,
                                        Label("vid", index)>>,
                           output |-> Label("xfade", index),
                           transition |->
                               TransitionType(transitions[index + 1].transition),
                           offset |-> IF offset < 0 THEN 0 ELSE offset,
                           duration |-> TRANSITION_DURATION]
             IN  [filters |-> graph.filters \o <<chain, xfade>>,
                  accumulatedDuration |->
                      graph.accumulatedDuration + duration - TRANSITION_DURATION,
                  previousStream |-> Label("xfade", index)]

\* GraphStep that does not advance the running stream.
GraphStepStalePrevious(graph, transitions, index) ==
    LET duration == transitions[index + 1].duration
        chain == [filter |-> "trim", inputs |-> <<Label("v", index)>>,
                  output |-> Label("vid", index), transition |-> "",
                  offset |-> 0, duration |-> duration]
    IN  IF index = 0
        THEN [filters |-> Append(graph.filters, chain),
              accumulatedDuration |-> duration,
              previousStream |-> Label("vid", index)]
        ELSE LET offset == graph.accumulatedDuration - TRANSITION_DURATION
                 xfade == [filter |-> "xfade",
                           inputs |-> <<graph.previousStream,
                                        Label("vid", index)>>,
                           output |-> Label("xfade", index),
                           transition |->
                               TransitionType(transitions[index].transition),
                           offset |-> IF offset < 0 THEN 0 ELSE offset,
                           duration |-> TRANSITION_DURATION]
             IN  [filters |-> graph.filters \o <<chain, xfade>>,
                  accumulatedDuration |->
                      graph.accumulatedDuration + duration - TRANSITION_DURATION,
                  previousStream |-> graph.previousStream]

\* One round of the forEach over videoFiles, for the 0-based index: the
\* clip's processing chain into vid<index> and, from the second clip on, the
\* xfade of the running stream with it.
GraphStep(graph, transitions, index) ==
    LET duration == transitions[index + 1].duration
        chain == [filter |-> "trim", inputs |-> <<Label("v", index)>>,
                  output |-> Label("vid", index), transition |-> "",
                  offset |-> 0, duration |-> duration]
    IN  IF index = 0
        THEN [filters |-> Append(graph.filters, chain),
              accumulatedDuration |-> duration,
              previousStream |-> Label("vid", index)]
        ELSE LET offset == graph.accumulatedDuration - TRANSITION_DURATION
                 xfade == [filter |-> "xfade",
                           inputs |-> <<graph.previousStream,
                                        Label("vid", index)>>,
                           output |-> Label("xfade", index),
                           transition |->
                               TransitionType(transitions[index].transition),
                           offset |-> IF offset < 0 THEN 0 ELSE offset,
                           duration |-> TRANSITION_DURATION]
             IN  [filters |-> graph.filters \o <<chain, xfade>>,
                  accumulatedDuration |->
                      graph.accumulatedDuration + duration - TRANSITION_DURATION,
                  previousStream |-> Label("xfade", index)]

\* The whole forEach, then the closing format filter into outv.
RECURSIVE GraphLoop(_, _, _, _)
GraphLoop(graph, transitions, index, n) ==
    IF index >= n THEN graph
    ELSE GraphLoop(GraphStep(graph, transitions, index), transitions,
                   index + 1, n)

BuildGraph(n, transitions) ==
    LET g == GraphLoop(NoGraph, transitions, 0, n)
    IN  [g EXCEPT !.filters =
            Append(@, [filter |-> "format", inputs |-> <<g.previousStream>>,
                       output |-> Label("outv", 0), transition |-> "",
                       offset |-> 0, duration |-> 0])]

\* The catch block of combineVideosWithTransitions: it logs 'Sync Error' and
\* calls reject(error), but no reject is in scope there (the file is in
\* strict mode), so a ReferenceError leaves the catch block instead.
CvCatch(message) ==
    /\ cv_logged' = <<"Sync Error: ">> \o message
    /\ cv_pc' = "rejected"
    /\ cv_error' = <<"reject is not defined">>
    /\ UNCHANGED <<cv_graph, cv_engineRuns, cv_result>>

\* combineVideosWithTransitions(videoFiles, transitions): input validation,
\* the filter graph, and the start of the engine run.
CombineVideosWithTransitions(videoFiles, transitions, u) ==
    /\ AllIdle
    /\ cv_videoFiles' = videoFiles
    /\ cv_transitions' = transitions
    /\ cv_outputPath' = WithTransitionsPath(u)
    /\ IF ~videoFiles.isArray \/ Len(videoFiles.paths) = 0
       THEN CvCatch(<<"First argument must be a non-empty array of ",
                      "video file paths">>)
       ELSE IF Len(transitions) # Len(videoFiles.paths)
            THEN CvCatch(<<"Transitions array length must match number ",
                           "of videos">>)
            ELSE /\ cv_graph' = BuildGraph(Len(videoFiles.paths), transitions)
                 /\ cv_engineRuns' = cv_engineRuns + 1
                 /\ cv_pc' = "running"
                 /\ UNCHANGED <<cv_logged, cv_result, cv_error>>
    /\ UNCHANGED <<batchVars, scriptVars, pipeVars, musicVars,
                   assemblyVars, findVars,
                   segmentVars>>

\* The engine run ends or fails.
CombineSettles(o) ==
    /\ cv_pc = "running"
    /\ IF o = "end"
       THEN /\ cv_pc' = "resolved"
            /\ cv_result' = cv_outputPath
            /\ UNCHANGED cv_error
       ELSE /\ cv_pc' = "rejected"
            /\ cv_error' = <<"Video combining failed: ",
                            "ffmpeg exited with code 1">>
            /\ UNCHANGED cv_result
    /\ UNCHANGED <<cv_videoFiles, cv_transitions, cv_outputPath, cv_graph,
                   cv_engineRuns, cv_logged>>
    /\ UNCHANGED <<batchVars, scriptVars, pipeVars, musicVars,
                   assemblyVars, findVars,
                   segmentVars>>

(***************************************************************************)
(* VideoGenerator.combineVideoAndAudio (core/video.js)                     *)
(***************************************************************************)

\* filePath?.endsWith(suffix): undefined for an undefined path.
EndsWith(filePath, suffix) == filePath.defined /\ filePath.ext = suffix

ValidatePathNoExistsCheck(filePath, type, disk) ==
    IF ~EndsWith(filePath, IF type = "video" THEN ".mp4" ELSE ".mp3")
    THEN [error |-> <<IF type = "video" THEN "Invalid video file format"
                      ELSE "Invalid audio file format">>,
          checked |-> <<>>]
    ELSE [error |-> NoError, checked |-> <<>>]

ValidatePathExistsFirst(filePath, type, disk) ==
    IF filePath \notin disk
    THEN [error |-> <<IF type = "video" THEN "video file not found"
                      ELSE "audio file not found">>,
          checked |-> <<filePath>>]
    ELSE IF ~EndsWith(filePath, IF type = "video" THEN ".mp4" ELSE ".mp3")
         THEN [error |-> <<IF type = "video" THEN "Invalid video file format"
                           ELSE "Invalid audio file format">>,
               checked |-> <<filePath>>]
         ELSE [error |-> NoError, checked |-> <<filePath>>]

\* validatePath(filePath, type): the message of the error it throws (NoError
\* when it returns) and the paths it called fs.existsSync with.
ValidatePath(filePath, type, disk) ==
    IF ~EndsWith(filePath, IF type = "video" THEN ".mp4" ELSE ".mp3")
    THEN [error |-> <<IF type = "video" THEN "Invalid video file format"
                      ELSE "Invalid audio file format">>,
          checked |-> <<>>]
    ELSE IF filePath \notin disk
         THEN [error |-> <<IF type = "video" THEN "video file not found"
                           ELSE "audio file not found">>,
               checked |-> <<filePath>>]
         ELSE [error |-> NoError, checked |-> <<filePath>>]

\* combineVideoAndAudio(audioPath, videoPath, outputPath): the audio path is
\* validated, then the video path; an error thrown by either is caught and
\* rethrown as 'Combination failed: ...'; otherwise the engine run starts and
\* its promise is returned.
CombineVideoAndAudio(audioPath, videoPath, outputPath, disk) ==
    /\ AllIdle
    /\ ca_audioPath' = audioPath
    /\ ca_videoPath' = videoPath
    /\ ca_outputPath' = IF outputPath.defined THEN outputPath
                        ELSE DefaultOutputPath
    /\ ca_disk' = disk
    /\ LET audio == ValidatePath(audioPath, "audio", disk)
           video == ValidatePath(videoPath, "video", disk)
       IN  IF audio.error # NoError
           THEN /\ ca_existsChecks' = audio.checked
                /\ ca_pc' = "rejected"
                /\ ca_error' = <<"Combination failed: ">> \o audio.error
                /\ UNCHANGED ca_engine
           ELSE IF video.error # NoError
                THEN /\ ca_existsChecks' = audio.checked \o video.checked
                     /\ ca_pc' = "rejected"
                     /\ ca_error' = <<"Combination failed: ">> \o video.error
                     /\ UNCHANGED ca_engine
                ELSE /\ ca_existsChecks' = audio.checked \o video.checked
                     /\ ca_pc' = "running"
                     /\ ca_engine' = "running"
                     /\ UNCHANGED ca_error
    /\ UNCHANGED <<ca_logged, ca_result>>
    /\ UNCHANGED <<batchVars, scriptVars, pipeVars, musicVars, findVars,
                   segmentVars, combineVars, generateVars>>

MuxSettlesDropsStderr(o) ==
    /\ ca_pc = "running"
    /\ IF o = "end"
       THEN /\ ca_engine' = "ended"
            /\ ca_pc' = "resolved"
            /\ ca_result' = ca_outputPath
            /\ UNCHANGED <<ca_logged, ca_error>>
       ELSE /\ ca_engine' = "failed"
            /\ ca_logged' = <<"Error mergin audio into video: ",
                              EngineErrorMessage>>
            /\ ca_pc' = "rejected"
            /\ ca_error' = <<"FFmpeg error: ", EngineErrorMessage>>
            /\ UNCHANGED ca_result
    /\ UNCHANGED <<ca_audioPath, ca_videoPath, ca_outputPath, ca_disk,
                   ca_existsChecks>>
    /\ UNCHANGED <<batchVars, scriptVars, pipeVars, musicVars, findVars,
                   segmentVars, combineVars, generateVars>>

\* The engine run of combineVideoAndAudio reports 'end' or 'error': the
\* promise resolves with outputPath, or the error is logged and the promise
\* rejects with the engine's message and stderr joined by a newline.
MuxSettles(o) ==
    /\ ca_pc = "running"
    /\ IF o = "end"
       THEN /\ ca_engine' = "ended"
            /\ ca_pc' = "resolved"
            /\ ca_result' = ca_outputPath
            /\ UNCHANGED <<ca_logged, ca_error>>
       ELSE /\ ca_engine' = "failed"
            /\ ca_logged' = <<"Error mergin audio into video: ",
                              EngineErrorMessage>>
            /\ ca_pc' = "rejected"
            /\ ca_error' = <<"FFmpeg error: ", EngineErrorMessage, "\n",
                             "Stderr: ", EngineStderr>>
            /\ UNCHANGED ca_result
    /\ UNCHANGED <<ca_audioPath, ca_videoPath, ca_outputPath, ca_disk,
                   ca_existsChecks>>
    /\ UNCHANGED <<batchVars, scriptVars, pipeVars, musicVars, findVars,
                   segmentVars, combineVars, generateVars>>

(***************************************************************************)
(* VideoGenerator.generateVideo and cleanup (core/video.js)                *)
(***************************************************************************)

AnySegmentReady(seg) == \E i \in DOMAIN seg : seg[i] = "resolved"

\* Promise.all over the createSegment promises resolves when every one of
\* them has resolved.
AllSegmentsReady(seg) == \A i \in DOMAIN seg : seg[i] = "resolved"

\* The catch block of generateVideo: log and rethrow.
GvCatch(message) ==
    /\ gv_logged' = <<"Failed to generate video: ">> \o message
    /\ gv_pc' = "rejected"
    /\ gv_error' = message

\* generateVideo continues after Promise.all resolved: it calls
\* combineVideosWithTransitions(segmentPaths, segments), which for an empty
\* list fails in its own catch block with 'reject is not defined'.
GvStitch(n) ==
    /\ gv_stitchCalls' = gv_stitchCalls + 1
    /\ IF n = 0
       THEN GvCatch(<<"reject is not defined">>)
       ELSE gv_pc' = "stitching" /\ UNCHANGED <<gv_logged, gv_error>>

\* generateVideo(segments, audioPath): createSegment is called for every
\* segment at once, and Promise.all over the calls is awaited.
GenerateVideo(segments, audioPath) ==
    /\ AllIdle
    /\ gv_segments' = segments
    /\ gv_audioPath' = audioPath
    /\ gv_seg' = [i \in 1 .. Len(segments) |-> "running"]
    /\ IF Len(segments) = 0
       THEN GvStitch(0)
       ELSE /\ gv_pc' = "segments"
            /\ UNCHANGED <<gv_stitchCalls, gv_logged, gv_error>>
    /\ UNCHANGED <<gv_muxCalls, gv_withTransitions, gv_outputPath,
                   gv_cleanupPaths, gv_unlink, gv_unlinkLogged, gv_result>>
    /\ UNCHANGED <<batchVars, scriptVars, pipeVars, musicVars, findVars,
                   segmentVars, combineVars, muxVars>>

\* The createSegment call for segment i settles. While Promise.all is
\* pending, a rejection rejects it and generateVideo with it, and the last
\* resolution resolves it; the calls for the other segments keep running
\* after a rejection.
GvSegmentSettles(i, o) ==
    /\ gv_pc # "idle"
    /\ i \in DOMAIN gv_seg
    /\ gv_seg[i] = "running"
    /\ LET seg == [gv_seg EXCEPT ![i] = o]
       IN  /\ gv_seg' = seg
           /\ IF gv_pc = "segments"
              THEN IF o = "rejected"
                   THEN GvCatch(SegmentError) /\ UNCHANGED gv_stitchCalls
                   ELSE IF AllSegmentsReady(seg)
                        THEN GvStitch(Len(gv_segments))
                        ELSE UNCHANGED <<gv_pc, gv_stitchCalls, gv_logged,
                                         gv_error>>
              ELSE UNCHANGED <<gv_pc, gv_stitchCalls, gv_logged, gv_error>>
    /\ UNCHANGED <<gv_segments, gv_audioPath, gv_muxCalls, gv_withTransitions,
                   gv_outputPath, gv_cleanupPaths, gv_unlink, gv_unlinkLogged,
                   gv_result>>
    /\ UNCHANGED <<batchVars, scriptVars, pipeVars, musicVars, findVars,
                   segmentVars, combineVars, muxVars>>

\* combineVideosWithTransitions settles, with the uuid u in its path: on
\* success generateVideo builds final_<uuid>.mp4 and calls
\* combineVideoAndAudio, whose validation of the audio path can throw at once.
GvStitchSettles(o, u) ==
    /\ gv_pc = "stitching"
    /\ IF o = "end"
       THEN /\ gv_withTransitions' = WithTransitionsPath(u)
            /\ gv_outputPath' = FinalPath(NextUuid(u))
            /\ gv_muxCalls' = gv_muxCalls + 1
            /\ LET audio == ValidatePath(gv_audioPath, "audio", GvDisk)
               IN  IF audio.error # NoError
                   THEN GvCatch(<<"Combination failed: ">> \o audio.error)
                   ELSE gv_pc' = "muxing" /\ UNCHANGED <<gv_logged, gv_error>>
       ELSE /\ GvCatch(<<"Video combining failed: ",
                         "ffmpeg exited with code 1">>)
            /\ UNCHANGED <<gv_withTransitions, gv_outputPath, gv_muxCalls>>
    /\ UNCHANGED <<gv_segments, gv_audioPath, gv_seg, gv_stitchCalls,
                   gv_cleanupPaths, gv_unlink, gv_unlinkLogged, gv_result>>
    /\ UNCHANGED <<batchVars, scriptVars, pipeVars, musicVars, findVars,
                   segmentVars, combineVars, muxVars>>

\* combineVideoAndAudio settles: on success cleanup([...segmentPaths,
\* withTransitions]) starts an unlink for every path.
GvMuxSettles(o) ==
    /\ gv_pc = "muxing"
    /\ IF o = "end"
       THEN /\ gv_cleanupPaths' =
                  [i \in 1 .. Len(gv_segments) |-> SegmentPath(gv_segments[i])]
                      \o <<gv_withTransitions>>
            /\ gv_unlink' = [k \in 1 .. Len(gv_segments) + 1 |-> "pending"]
            /\ gv_pc' = "cleaning"
            /\ UNCHANGED <<gv_logged, gv_error>>
       ELSE /\ GvCatch(<<"FFmpeg error: ", EngineErrorMessage, "\n",
                         "Stderr: ", EngineStderr>>)
            /\ UNCHANGED <<gv_cleanupPaths, gv_unlink>>
    /\ UNCHANGED <<gv_segments, gv_audioPath, gv_seg, gv_stitchCalls,
                   gv_muxCalls, gv_withTransitions, gv_outputPath,
                   gv_unlinkLogged, gv_result>>
    /\ UNCHANGED <<batchVars, scriptVars, pipeVars, musicVars, findVars,
                   segmentVars, combineVars, muxVars>>

CleanupUnlinkSettlesEscalates(k, ok) ==
    /\ gv_pc = "cleaning"
    /\ k \in DOMAIN gv_unlink
    /\ gv_unlink[k] = "pending"
    /\ LET unlink == [gv_unlink EXCEPT ![k] = IF ok THEN "deleted" ELSE "failed"]
       IN  /\ gv_unlink' = unlink
           /\ UNCHANGED gv_unlinkLogged
           /\ IF ~ok
              THEN GvCatch(<<"ENOENT: no such file or directory">>)
                   /\ UNCHANGED gv_result
              ELSE IF \A j \in DOMAIN unlink : unlink[j] # "pending"
                   THEN /\ gv_pc' = "returned"
                        /\ gv_result' = gv_outputPath
                        /\ UNCHANGED <<gv_logged, gv_error>>
                   ELSE UNCHANGED <<gv_pc, gv_result, gv_logged, gv_error>>
    /\ UNCHANGED <<gv_segments, gv_audioPath, gv_seg, gv_stitchCalls,
                   gv_muxCalls, gv_withTransitions, gv_outputPath,
                   gv_cleanupPaths>>
    /\ UNCHANGED <<batchVars, scriptVars, pipeVars, musicVars, findVars,
                   segmentVars, combineVars, muxVars>>

\* The unlink of cleanup path k settles; a failure is caught and logged.
\* When the last one has settled cleanup resolves and generateVideo returns
\* outputPath.
CleanupUnlinkSettles(k, ok) ==
    /\ gv_pc = "cleaning"
    /\ k \in DOMAIN gv_unlink
    /\ gv_unlink[k] = "pending"
    /\ LET unlink == [gv_unlink EXCEPT ![k] = IF ok THEN "deleted" ELSE "failed"]
       IN  /\ gv_unlink' = unlink
           /\ gv_unlinkLogged' = IF ok THEN gv_unlinkLogged
                                 ELSE gv_unlinkLogged \cup {gv_cleanupPaths[k]}
           /\ IF \A j \in DOMAIN unlink : unlink[j] # "pending"
              THEN gv_pc' = "returned" /\ gv_result' = gv_outputPath
              ELSE UNCHANGED <<gv_pc, gv_result>>
    /\ UNCHANGED <<gv_segments, gv_audioPath, gv_seg, gv_stitchCalls,
                   gv_muxCalls, gv_withTransitions, gv_outputPath,
                   gv_cleanupPaths, gv_logged, gv_error>>
    /\ UNCHANGED <<batchVars, scriptVars, pipeVars, musicVars, findVars,
                   segmentVars, combineVars, muxVars>>

\* The files the pipeline of batch task t writes: every task runs the same
\* baseConfig, so the same outputDir and temp directory; the segments of its
\* script are numbered from 1; the stitched and the final file carry a uuid
\* of their own.
TaskOutputs(t) ==
    {SegmentPath(i) : i \in 1 .. MIN_SEGMENTS}
        \cup {WithTransitionsPath(t), FinalPath(t)}

(***************************************************************************)
(* Specification                                                           *)
(***************************************************************************)
Init ==
    /\ constructed = FALSE
    /\ maxConcurrent = 0
    /\ activeProcesses = {}
    /\ queue = <<>>
    /\ results = <<>>
    /\ errors = <<>>
    /\ started = FALSE
    /\ count = 0
    /\ child = [t \in TaskIds |-> "none"]
    /\ settled = [t \in TaskIds |-> FALSE]
    /\ spawnLog = <<>>
    /\ completeLog = <<>>
    /\ onceRegistered = FALSE
    /\ resolved = FALSE
    /\ failedTasks = {}
    /\ alive = TRUE
    /\ hasErrorListener = FALSE
    /\ rejectionsThrow = FALSE
    /\ uncaughtHandler = FALSE
    /\ gs_pc = "idle"
    /\ gs_config = NoScriptConfig
    /\ gs_attempt = 0
    /\ gs_calls = 0
    /\ gs_delays = <<>>
    /\ gs_response = NoCompletion
    /\ gs_result = NoScript
    /\ gs_error = NoError
    /\ gs_validation = NoError
    /\ gs_logged = NoError
    /\ collabFailure = FALSE
    /\ pl_pc = "idle"
    /\ pl_entry = "none"
    /\ pl_config = NoPipelineConfig
    /\ pl_components = {}
    /\ pl_stage = [s \in StageSet |-> "notStarted"]
    /\ pl_stageError = [s \in StageSet |-> NoError]
    /\ pl_musicPath = NoPath
    /\ pl_error = NoError
    /\ pl_result = NoPath
    /\ gm_pc = "idle"
    /\ gm_category = ""
    /\ gm_attempt = 0
    /\ gm_searches = <<>>
    /\ gm_logged = <<>>
    /\ gm_caught = NoError
    /\ gm_musicId = 0
    /\ gm_files = {}
    /\ gm_result = NoPath
    /\ gm_error = NoError
    /\ fv_pc = "idle"
    /\ fv_segment = UndefinedSegment
    /\ fv_searches = <<>>
    /\ fv_failed = <<>>
    /\ fv_result = NoVideoFile
    /\ fv_error = NoError
    /\ cs_pc = "idle"
    /\ cs_outputPath = NoPath
    /\ cs_result = NoPath
    /\ cs_error = NoError
    /\ cv_pc = "idle"
    /\ cv_videoFiles = [isArray |-> FALSE, paths |-> <<>>]
    /\ cv_transitions = <<>>
    /\ cv_outputPath = NoPath
    /\ cv_graph = NoGraph
    /\ cv_engineRuns = 0
    /\ cv_logged = NoError
    /\ cv_result = NoPath
    /\ cv_error = NoError
    /\ ca_pc = "idle"
    /\ ca_audioPath = UndefinedPath
    /\ ca_videoPath = UndefinedPath
    /\ ca_outputPath = UndefinedPath
    /\ ca_disk = {}
    /\ ca_existsChecks = <<>>
    /\ ca_engine = "none"
    /\ ca_logged = NoError
    /\ ca_result = UndefinedPath
    /\ ca_error = NoError
    /\ gv_pc = "idle"
    /\ gv_segments = <<>>
    /\ gv_audioPath = UndefinedPath
    /\ gv_seg = <<>>
    /\ gv_stitchCalls = 0
    /\ gv_muxCalls = 0
    /\ gv_withTransitions = NoPath
    /\ gv_outputPath = NoPath
    /\ gv_cleanupPaths = <<>>
    /\ gv_unlink = <<>>
    /\ gv_unlinkLogged = {}
    /\ gv_logged = NoError
    /\ gv_result = NoPath
    /\ gv_error = NoError

\* The guard of an action with many inputs is repeated in front of its
\* quantifier, so that the inputs are enumerated only where it is enabled.
Next ==
    \/ \E opt \in OptionsMaxConcurrent, cpus \in 1 .. MaxCpus :
          Constructor(opt, cpus)
    \/ \E n \in 0 .. MaxCount : Process(n)
    \/ \E t \in TaskIds, code \in ExitCodes : ChildClose(t, code)
    \/ \E t \in TaskIds : ChildError(t)
    \/ AllIdle /\ \E config \in ScriptConfigs : GenerateScript(config)
    \/ gs_pc = "calling" /\ \E c \in Completions : CompletionSettles(c)
    \/ BackoffElapses
    \/ AllIdle /\ \E config \in PipelineConfigs : CreateVideo(config)
    \/ AllIdle /\ \E config \in PipelineConfigs : CliCreate(config)
    \/ \E outcome \in AudioOutcomes \cup VideoOutcomes
                       \cup StageOutcomes("script") :
          CreateVideoResume(outcome)
    \/ AllIdle /\ \E category \in MusicCategories : GenerateMusic(category)
    \/ \E o \in SearchOutcomes : SearchSettles(o)
    \/ \E o \in DownloadOutcomes : DownloadSettles(o)
    \/ \E o \in WriteOutcomes : WriteSettles(o)
    \/ \E o \in ProbeOutcomes : ProbeSettles(o)
    \/ \E o \in FadeOutcomes, unlinkOk \in BOOLEAN : FadeSettles(o, unlinkOk)
    \/ AllIdle /\ \E segment \in VideoSegments : FindSuitableVideo(segment)
    \/ \E o \in VideoSearchOutcomes : VideoSearchSettles(o)
    \/ AllIdle /\ \E segment \in VideoSegments : CreateSegment(segment)
    \/ CreateMediaSegmentResume
    \/ \E o \in ClipDownloadOutcomes : ClipDownloadSettles(o)
    \/ \E o \in RenderOutcomes : RenderSettles(o)
    \/ AllIdle /\ \E videoFiles \in ClipLists, transitions \in TransitionLists,
                     u \in 1 .. MaxIds :
          CombineVideosWithTransitions(videoFiles, transitions, u)
    \/ \E o \in CombineOutcomes : CombineSettles(o)
    \/ AllIdle /\ \E audioPath \in AudioPaths, videoPath \in VideoPaths,
                     outputPath \in OutputPaths, disk \in Disks :
          CombineVideoAndAudio(audioPath, videoPath, outputPath, disk)
    \/ \E o \in MuxOutcomes : MuxSettles(o)
    \/ AllIdle /\ \E segments \in GvSegmentLists, audioPath \in GvAudioPaths :
          GenerateVideo(segments, audioPath)
    \/ \E i \in 1 .. MaxClips, o \in SegmentOutcomes : GvSegmentSettles(i, o)
    \/ \E o \in CombineOutcomes, u \in 1 .. MaxIds : GvStitchSettles(o, u)
    \/ \E o \in MuxOutcomes : GvMuxSettles(o)
    \/ \E k \in 1 .. MaxClips + 1, ok \in BOOLEAN : CleanupUnlinkSettles(k, ok)

Spec == Init /\ [][Next]_vars

(***************************************************************************)
(* Batch controller properties                                             *)
(***************************************************************************)

\* Tasks recorded as completed: one entry of results or errors each.
CompletedCount == Len(results) + Len(errors)

\* No spawned child can still deliver an event to the controller.
NoChildInFlight == \A t \in TaskIds : child[t] \notin {"running", "errored"}

\* C1: for a batch started with process(baseConfig, count) on a processor
\* whose maxConcurrent is m >= 1, activeProcesses.size never exceeds m, under
\* every interleaving of the children's close and error events.
C1_ActiveNeverExceedsMax ==
    (started /\ maxConcurrent >= 1)
        => Cardinality(activeProcesses) <= maxConcurrent

\* C1 witness: a batch larger than the cap has the cap filled while tasks are
\* still queued, after a child has already finished.
C1_Witness ==
    /\ started /\ count > maxConcurrent
    /\ Cardinality(activeProcesses) = maxConcurrent
    /\ Len(queue) > 0
    /\ CompletedCount > 0

\* C2: when a task's child fails (nonzero exit code or spawn error), only
\* that task's outcome is affected: the controller keeps running, no sibling
\* changes state other than being admitted, and no admissible task is left
\* waiting in the queue by the step that handles the failure.
C2_FailureIsolated ==
    [][(/\ failedTasks' # failedTasks
        /\ maxConcurrent >= 1
        /\ (queue # <<>> \/ activeProcesses \ failedTasks' # {}))
          => /\ alive'
             /\ (queue' = <<>>
                   \/ Cardinality(activeProcesses') >= maxConcurrent)
             /\ \A s \in TaskIds :
                   (s \notin failedTasks' /\ child'[s] # child[s])
                       => child'[s] = "running"]_vars

\* C3: for count >= 1, once every spawned child has closed the batch is in
\* the complete state: queue and active set empty, 'complete' emitted and the
\* promise of process() resolved.  (Handlers are atomic, so a state in which
\* no child can deliver another event is final.)
C3_AllClosedImpliesComplete ==
    (started /\ count >= 1 /\ maxConcurrent >= 1 /\ NoChildInFlight)
        => /\ queue = <<>>
           /\ activeProcesses = {}
           /\ Len(completeLog) >= 1
           /\ resolved

\* C4: the 'complete' summary is emitted at most once per batch run, and only
\* with the queue and the active set empty; no later close or error event
\* emits it again.
C4_CompleteEmittedOnce ==
    /\ Len(completeLog) <= 1
    /\ \A i \in 1 .. Len(completeLog) :
          completeLog[i].queued = 0 /\ completeLog[i].active = 0

\* C5: until the batch reaches the complete state, queue length + active-set
\* size + number of completed tasks equals count.
C5_Conservation ==
    (started /\ ~(queue = <<>> /\ activeProcesses = {}))
        => Len(queue) + Cardinality(activeProcesses) + CompletedCount = count

(***************************************************************************)
(* Pipeline orchestrator properties                                        *)
(***************************************************************************)

InProgressStages == {s \in StageSet : pl_stage[s] = "inProgress"}

LaterStages(s) ==
    CASE s = "script" -> {"audio", "video"}
      [] s = "audio" -> {"video"}
      [] s = "video" -> {}

\* C7: if a stage of createVideo fails, no later stage is started,
\* createVideo rejects with exactly the error that stage rejected with and
\* returns no path; Failed is absorbing, Done is never reached afterwards.
C7_FailureAborts ==
    /\ [](\A s \in StageSet :
            pl_stage[s] = "rejected"
                => /\ pl_pc = "failed"
                   /\ pl_error = pl_stageError[s]
                   /\ pl_result = NoPath
                   /\ \A l \in LaterStages(s) : pl_stage[l] = "notStarted")
    /\ [][pl_pc = "failed" => (pl_pc' = "failed" /\ UNCHANGED pipeVars)]_vars

\* C7 witness: script generation rejected with the generic model error and
\* createVideo rejected with it.
C7_Witness ==
    /\ pl_pc = "failed"
    /\ pl_stage["script"] = "rejected"
    /\ pl_error = LLM_ERROR_MESSAGE
    /\ pl_stage["audio"] = "notStarted"

\* One of the three API keys, category, tone or topic is missing or empty.
RequiredMissing(config) ==
    \/ config.groqKey = "" \/ config.pexelsKey = "" \/ config.freeSoundKey = ""
    \/ config.category = "" \/ config.tone = "" \/ config.topic = ""

\* C8: for every config in which one of the three API keys, category, tone
\* or topic is missing or empty, createVideo fails validation before any
\* component is constructed or invoked and before any network call.
C8_ValidationBeforeComponents ==
    (pl_pc # "idle" /\ RequiredMissing(pl_config))
        => /\ pl_pc = "exited"
           /\ pl_components = {}
           /\ \A s \in StageSet : pl_stage[s] = "notStarted"
           /\ gs_pc = "idle"
           /\ gs_calls = 0

\* C9: for a config with all three keys, category, tone, topic and a duration
\* divisible by 5, if no external collaborator fails, createVideo ends in
\* Done and returns the final_<unique id>.mp4 path in the output directory.
C9_SuccessReturnsFinalPath ==
    (/\ pl_pc \in {"done", "failed", "exited"}
     /\ ~RequiredMissing(pl_config)
     /\ pl_config.duration > 0
     /\ pl_config.duration % 5 = 0
     /\ ~collabFailure)
        => /\ pl_pc = "done"
           /\ \E u \in 1 .. MaxIds : pl_result = FinalPath(u)

(***************************************************************************)
(* Script generator properties                                             *)
(***************************************************************************)

\* The three properties the script contract names: at least 3 segments,
\* every duration the canonical 5 seconds, every transition in the enum.
MeetsScriptContract(segments) ==
    /\ Len(segments) >= 3
    /\ \A i \in 1 .. Len(segments) :
          /\ segments[i].duration = 5
          /\ segments[i].transition \in TransitionEnum

\* The step in which a completion arrives whose JSON violates the contract.
ViolatingResponseArrives ==
    /\ gs_pc = "calling"
    /\ gs_pc' # "calling"
    /\ gs_response'.kind = "json"
    /\ ~MeetsScriptContract(gs_response'.segments)

IsParseSchemaOrEmptyFailure(c) ==
    \/ c.kind \in {"empty", "emptyObject", "notJson"}
    \/ c.kind = "json" /\ ~ScriptSchema(c.segments)
    \/ c.kind = "apiError" /\ c.message = <<"Unexpected end of JSON input">>

\* Every delay taken so far is k seconds before the k-th retry.
BackoffIsLinear ==
    \A k \in 1 .. Len(gs_delays) : gs_delays[k] = 1000 * k

\* Another attempt starts only out of the backoff that followed a parse,
\* schema or empty-response failure.
OnlyRetryableFailuresRetried ==
    (gs_calls >= 1 /\ gs_attempt' > gs_attempt)
        => (gs_pc = "backoff" /\ IsParseSchemaOrEmptyFailure(gs_response))

FatalErrorArrives ==
    /\ gs_pc = "calling"
    /\ gs_pc' # "calling"
    /\ gs_response'.kind = "apiError"
    /\ ~IsParseSchemaOrEmptyFailure(gs_response')

LoggedDetail == {gs_logged[i] : i \in 4 .. Len(gs_logged)}

\* C13: whenever generateScript rejects because the model failed (retries
\* exhausted or a fatal model/API error), the rejection's message is exactly
\* LLM_ERROR_MESSAGE and carries none of the internal error detail, which
\* is only logged.
C13_GenericErrorOnly ==
    (gs_pc = "rejected" /\ gs_response # NoCompletion)
        => /\ gs_error = LLM_ERROR_MESSAGE
           /\ LoggedDetail # {}
           /\ \A d \in LoggedDetail : ~Includes(gs_error, d)

\* C13 witness: the retries are exhausted on an unparseable response and
\* generateScript has rejected.
C13_Witness ==
    /\ gs_pc = "rejected"
    /\ gs_attempt = MAX_RETRIES
    /\ gs_response.kind = "notJson"
    /\ Includes(gs_logged, "Invalid JSON response")

\* The preconditions of generateScript named by the contract: duration,
\* category and tone present, duration divisible by 5.
PreconditionViolated(config) ==
    \/ config.duration = 0 \/ config.category = "" \/ config.tone = ""
    \/ config.duration % 5 # 0

\* The message names the precondition the config violates.
NamesViolation(config, message) ==
    /\ config.duration = 0 => Includes(message, "duration")
    /\ config.category = "" => Includes(message, "category")
    /\ config.tone = "" => Includes(message, "tone")
    /\ (config.duration # 0 /\ config.category # "" /\ config.tone # "")
          => Includes(message, "Duration must be divisible by 5")

\* C14: generateScript called with a duration not divisible by 5, or with
\* category, tone or duration missing, fails fast with a descriptive error
\* naming the violated precondition, without invoking the completion
\* endpoint and without any retry or backoff delay.
C14_ConfigErrorIsDescriptive ==
    (gs_pc # "idle" /\ PreconditionViolated(gs_config))
        => /\ gs_pc = "rejected"
           /\ gs_calls = 0
           /\ gs_delays = <<>>
           /\ NamesViolation(gs_config, gs_error)

\* C15: validateConfig throws if and only if duration, category or tone is
\* missing or duration is not divisible by 5; a config in which only
\* category and tone are missing is rejected with the message
\* 'Missing required fields: category, tone'.
C15_ValidateConfigIff ==
    gs_pc # "idle"
        => /\ (gs_validation # NoError) <=> PreconditionViolated(gs_config)
           /\ (/\ gs_config.duration # 0
               /\ gs_config.category = "" /\ gs_config.tone = "")
                 => gs_validation =
                       <<"Missing required fields: ", "category", "tone">>

\* C16: every script generateScript returns for duration d has exactly d / 5
\* segments; a response with another segment count is rejected, not
\* returned.
C16_SegmentCountMatchesDuration ==
    gs_pc = "returned"
        => Len(gs_result.segments) * SEGMENT_DURATION = gs_config.duration

(***************************************************************************)
(* Audio provider properties                                               *)
(***************************************************************************)

\* C17: generateMusic performs at most 3 attempts; when each of its 3
\* attempts has failed it rejects with the single aggregate error 'Max
\* retries reached. Failed to generate music.', having logged exactly one
\* 'Attempt n failed' error per attempt (3 in total) and issued no fourth
\* search.
C17_ThreeAttemptsThenAggregateError ==
    /\ gm_attempt <= 3
    /\ Len(gm_searches) <= 3
    /\ gm_logged = [n \in 1 .. gm_attempt |-> n]
    /\ gm_attempt = 3 <=> gm_pc = "rejected"
    /\ gm_pc = "rejected"
          => /\ gm_error = <<"Max retries reached. Failed to generate music.">>
             /\ gm_logged = <<1, 2, 3>>
             /\ Len(gm_searches) = 3
             /\ gm_result = NoPath

\* C17 witness: three attempts have failed, the third on a download HTTP
\* error, and generateMusic has rejected after three searches.
C17_Witness ==
    /\ gm_pc = "rejected"
    /\ gm_logged = <<1, 2, 3>>
    /\ gm_caught = <<"Audio download failed: ", "404">>
    /\ Len(gm_searches) = 3

\* The first two search terms the claim expects for a category.
ExpectedTerms(category) ==
    CASE category = "Food & Cooking" -> <<"warm jazzy", "cozy kitchen">>
      [] category = "Science & Technology" ->
            <<"electronic futuristic", "ambient digital">>
      [] OTHER -> <<"background music", "cinematic instrumental">>

NoQueryMatched ==
    /\ fv_segment.defined
    /\ fv_pc \in {"returned", "rejected"}
    /\ fv_searches = SearchQueries(fv_segment)
    /\ fv_result.quality # "hd"

\* C19: if no query of the fixed list yields a result with an 'hd' file,
\* findSuitableVideo, and therefore createSegment, fails with the explicit
\* 'No suitable media found' error after at most the 7 searches of the list;
\* findSuitableVideo never returns without a video file.
C19_NoMatchFailsExplicitly ==
    /\ Len(fv_searches) <= 7
    /\ fv_pc = "returned" => fv_result.defined
    /\ NoQueryMatched
          => /\ fv_pc = "rejected"
             /\ Includes(fv_error,
                         "No suitable media found after multiple searches. ")
    /\ (NoQueryMatched /\ cs_pc \in {"resolved", "rejected"})
          => /\ cs_pc = "rejected"
             /\ Includes(cs_error,
                         "No suitable media found after multiple searches. ")

\* C20: combineVideosWithTransitions called with an empty clip list, or with
\* clip and segment lists of different lengths, rejects with the
\* corresponding input-validation error (non-empty array required / lengths
\* must match) and never invokes the media engine.
C20_InvalidInputRejectedWithValidationError ==
    /\ (cv_pc # "idle" /\ cv_videoFiles.isArray
          /\ Len(cv_videoFiles.paths) = 0)
          => /\ cv_pc = "rejected"
             /\ cv_engineRuns = 0
             /\ cv_error = <<"First argument must be a non-empty array of ",
                             "video file paths">>
    /\ (cv_pc # "idle" /\ cv_videoFiles.isArray
          /\ Len(cv_videoFiles.paths) > 0
          /\ Len(cv_transitions) # Len(cv_videoFiles.paths))
          => /\ cv_pc = "rejected"
             /\ cv_engineRuns = 0
             /\ cv_error = <<"Transitions array length must match number ",
                             "of videos">>

(***************************************************************************)
(* Stitcher arithmetic and transition lookup                               *)
(***************************************************************************)

\* The filter graph of the current call has been built.
GraphBuilt == cv_pc # "idle" /\ cv_graph # NoGraph

\* d1 + ... + dk of the segments of the current call, in tenths of a second.
RECURSIVE SumDurations(_)
SumDurations(k) ==
    IF k = 0 THEN 0 ELSE SumDurations(k - 1) + cv_transitions[k].duration

\* The accumulated duration after the forEach has handled the first k clips.
AccumulatedAfter(k) ==
    GraphLoop(NoGraph, cv_transitions, 0, k).accumulatedDuration

\* C21: with clip durations d1..dn and transition length 0.5 s, the
\* accumulated duration is d1 after the first clip and the previous value
\* + dk - 0.5 after joining clip k ([5, 9.5, 14] for [5, 5, 5]); the length
\* the output is cut to is d1 + ... + dn - 0.5 * (n - 1).
C21_AccumulatedDuration ==
    GraphBuilt =>
        LET n == Len(cv_transitions)
        IN  /\ AccumulatedAfter(1) = cv_transitions[1].duration
            /\ \A k \in 2 .. n :
                  AccumulatedAfter(k) =
                      AccumulatedAfter(k - 1) + cv_transitions[k].duration - 5
            /\ cv_graph.accumulatedDuration = SumDurations(n) - 5 * (n - 1)
            /\ (n = 3 /\ \A k \in 1 .. n : cv_transitions[k].duration = 50)
                  => /\ AccumulatedAfter(1) = 50
                     /\ AccumulatedAfter(2) = 95
                     /\ AccumulatedAfter(3) = 140

\* C21 witness: three clips of 5 s have been stitched and the output is cut
\* to 14 s.
C21_Witness ==
    /\ cv_pc = "running"
    /\ Len(cv_transitions) = 3
    /\ \A k \in 1 .. 3 : cv_transitions[k].duration = 50
    /\ cv_graph.accumulatedDuration = 140

\* The xfade filters of the graph of the current call.
XfadeFilters ==
    {cv_graph.filters[i] : i \in {j \in 1 .. Len(cv_graph.filters) :
                                     cv_graph.filters[j].filter = "xfade"}}

\* C22: for every join the xfade offset is max(0, accumulated duration
\* - 0.5 s): exactly 0 whenever accumulated duration - 0.5 s < 0, and never
\* negative for any sequence of segment durations.
C22_OffsetClamped ==
    GraphBuilt =>
        \A f \in XfadeFilters :
            LET k == f.output.index
                accumulated == SumDurations(k) - 5 * (k - 1)
            IN  /\ f.offset = Max(0, accumulated - 5)
                /\ accumulated - 5 < 0 => f.offset = 0
                /\ f.offset >= 0

\* C22 witness: the first segment is shorter than the transition, and the
\* first join got offset 0.
C22_Witness ==
    /\ cv_pc = "running"
    /\ Len(cv_transitions) >= 2
    /\ cv_transitions[1].duration < TRANSITION_DURATION
    /\ \E f \in XfadeFilters : f.output.index = 1 /\ f.offset = 0

\* The filter name the lookup is said to yield for a transition identifier.
ClaimedFilterName(transition) ==
    CASE transition = "fade" -> "fade"
      [] transition = "dissolve" -> "fadeblack"
      [] transition = "slideLeft" -> "slideleft"
      [] transition = "slideRight" -> "slideright"
      [] transition = "circleWipe" -> "circleopen"
      [] transition = "pixelize" -> "pixelize"
      [] OTHER -> "fade"

\* C23: the transition lookup yields the same filter name for the same
\* identifier in every join (fade, fadeblack, slideleft, slideright,
\* circleopen, pixelize for the six known identifiers) and 'fade' for every
\* unknown or missing identifier.
C23_LookupTable ==
    GraphBuilt =>
        \A f \in XfadeFilters :
            f.transition =
                ClaimedFilterName(cv_transitions[f.output.index].transition)

(***************************************************************************)
(* combineVideoAndAudio properties                                         *)
(***************************************************************************)

AudioBadFormat == ~EndsWith(ca_audioPath, ".mp3")

AudioMissing == EndsWith(ca_audioPath, ".mp3") /\ ca_audioPath \notin ca_disk

AudioValid == EndsWith(ca_audioPath, ".mp3") /\ ca_audioPath \in ca_disk

VideoBadFormat == ~EndsWith(ca_videoPath, ".mp4")

VideoMissing == EndsWith(ca_videoPath, ".mp4") /\ ca_videoPath \notin ca_disk

VideoValid == EndsWith(ca_videoPath, ".mp4") /\ ca_videoPath \in ca_disk

ValidationMessages ==
    {"Invalid audio file format", "audio file not found",
     "Invalid video file format", "video file not found"}

\* The validation messages the error of the call contains.
ReportedValidation == {m \in ValidationMessages : Includes(ca_error, m)}

\* C24: whenever a path fails validation, combineVideoAndAudio rejects
\* before the engine is invoked, and the error names the failure of the
\* first failing path (audio before video): 'Invalid <type> file format' for
\* a wrong extension, '<type> file not found' for a right extension and no
\* file on disk; the four messages are distinct.
C24_ValidationRejectsBeforeEngine ==
    (ca_pc # "idle" /\ ~(AudioValid /\ VideoValid))
        => /\ ca_pc = "rejected"
           /\ ca_engine = "none"
           /\ ReportedValidation =
                 IF AudioBadFormat THEN {"Invalid audio file format"}
                 ELSE IF AudioMissing THEN {"audio file not found"}
                 ELSE IF VideoBadFormat THEN {"Invalid video file format"}
                 ELSE {"video file not found"}

\* C24 witness: the audio file exists, the .mp4 video path does not, and the
\* call rejected with 'video file not found' without an engine run.
C24_Witness ==
    /\ ca_pc = "rejected"
    /\ AudioValid
    /\ VideoMissing
    /\ Includes(ca_error, "video file not found")
    /\ ca_engine = "none"

\* C25 as claimed: given a video path without the .mp4 extension,
\* combineVideoAndAudio rejects with 'Invalid video file format', no
\* existence check is performed and the engine is not invoked.
C25_BadVideoPathNoFilesystemAccess ==
    (ca_pc # "idle" /\ VideoBadFormat)
        => /\ ca_pc = "rejected"
           /\ Includes(ca_error, "Invalid video file format")
           /\ ca_existsChecks = <<>>
           /\ ca_engine = "none"

\* C25 as amended: given an existing .mp3 audio path and a video path
\* without the .mp4 extension, combineVideoAndAudio rejects with 'Invalid
\* video file format'; the only existence check is that of the audio path,
\* the video path is never looked up on disk and the engine is not invoked.
C25_BadVideoPathNotLookedUp ==
    (ca_pc # "idle" /\ AudioValid /\ VideoBadFormat)
        => /\ ca_pc = "rejected"
           /\ Includes(ca_error, "Invalid video file format")
           /\ ca_existsChecks = <<ca_audioPath>>
           /\ ca_engine = "none"

\* C25 witness: audio.mp3 exists, the video path is invalid_video.avi (a
\* file that is on disk), and the call rejected with the format error.
C25_Witness ==
    /\ ca_pc = "rejected"
    /\ AudioValid
    /\ ca_videoPath = FilePath("invalid_video", ".avi")
    /\ ca_videoPath \in ca_disk
    /\ Includes(ca_error, "Invalid video file format")

C27_StitcherIsJoinBarrier ==
    /\ gv_stitchCalls > 0 => \A i \in DOMAIN gv_seg : gv_seg[i] = "resolved"
    /\ (\E i \in DOMAIN gv_seg : gv_seg[i] = "rejected")
          => /\ gv_stitchCalls = 0
             /\ gv_muxCalls = 0
             /\ gv_pc = "rejected"

\* C27 witness: one createSegment failed while another had already resolved
\* and a third was still running; generateVideo rejected without stitching.
C27_Witness ==
    /\ gv_pc = "rejected"
    /\ \E i, j, k \in DOMAIN gv_seg :
          /\ gv_seg[i] = "rejected"
          /\ gv_seg[j] = "resolved"
          /\ gv_seg[k] = "running"
    /\ gv_stitchCalls = 0

\* C28: no two concurrently running artifact-producing operations write the
\* same file path: neither two createSegment calls of one generateVideo (for
\* any list of at least 3 segments with positive ids), nor the pipelines of
\* two batch tasks that are active at the same time.
C28_NoSharedOutputPath ==
    /\ Len(gv_segments) >= MIN_SEGMENTS
          => \A i, j \in DOMAIN gv_seg :
                (i # j /\ gv_seg[i] = "running" /\ gv_seg[j] = "running")
                    => SegmentPath(gv_segments[i]) # SegmentPath(gv_segments[j])
    /\ \A t1, t2 \in activeProcesses :
          t1 # t2 => TaskOutputs(t1) \cap TaskOutputs(t2) = {}

\* C29: maxConcurrent is at least 1 for every constructor input, so a batch
\* with a non-empty queue always gets a task admitted.
C29_MaxConcurrentAtLeastOne ==
    /\ constructed => maxConcurrent >= 1
    /\ (started /\ count > 0) => Len(spawnLog) > 0

\* C30: cleanup starts an unlink for every path it is given (the segment
\* paths and the stitched file) and resolves when all have settled, whatever
\* their outcome; a failed unlink is logged and generateVideo still returns
\* outputPath; nothing that happens after generateVideo rejected changes the
\* error it reported.
C30_CleanupFailuresOnlyLogged ==
    /\ [](gv_pc \in {"cleaning", "returned"}
            => /\ gv_cleanupPaths =
                     [i \in 1 .. Len(gv_segments) |->
                         SegmentPath(gv_segments[i])] \o <<gv_withTransitions>>
               /\ DOMAIN gv_unlink = DOMAIN gv_cleanupPaths
               /\ \A k \in DOMAIN gv_unlink :
                     gv_unlink[k] = "failed"
                         => gv_cleanupPaths[k] \in gv_unlinkLogged
               /\ gv_error = NoError
               /\ gv_pc = "returned"
                     <=> \A k \in DOMAIN gv_unlink : gv_unlink[k] # "pending"
               /\ gv_pc = "returned" => gv_result = gv_outputPath)
    /\ [][gv_pc = "cleaning" => gv_pc' \in {"cleaning", "returned"}]_vars
    /\ [][gv_pc = "rejected" => UNCHANGED <<gv_pc, gv_error, gv_result>>]_vars

\* C30 witness: generateVideo returned outputPath although an unlink of
\* cleanup failed.
C30_Witness ==
    /\ gv_pc = "returned"
    /\ gv_result = gv_outputPath
    /\ \E k \in DOMAIN gv_unlink : gv_unlink[k] = "failed"

(***************************************************************************)
(* Filter graph properties                                                 *)
(***************************************************************************)

\* C31: for every join index i >= 1 the transition of the xfade between the
\* running stream and clip i is the one declared on segment i - 1, mapped
\* through the transition table; there is exactly one join per i in
\* 1 .. n - 1, so the transition declared on the last segment is never used.
C31_TransitionOfPrecedingSegment ==
    GraphBuilt =>
        LET n == Len(cv_transitions)
        IN  /\ {f.output.index : f \in XfadeFilters} = 1 .. (n - 1)
            /\ Cardinality(XfadeFilters) = n - 1
            /\ \A f \in XfadeFilters :
                  \* segment i - 1 is entry i of the 1-based sequence
                  f.transition =
                      TransitionType(cv_transitions[f.output.index].transition)

\* C31 witness: segment 0 declares dissolve and segment 1 slideLeft; the
\* first join uses fadeblack.
C31_Witness ==
    /\ cv_pc = "running"
    /\ Len(cv_transitions) >= 2
    /\ cv_transitions[1].transition = "dissolve"
    /\ cv_transitions[2].transition = "slideLeft"
    /\ \E f \in XfadeFilters :
          f.output.index = 1 /\ f.transition = "fadeblack"

\* The stream labels the filters of the graph define and consume; the
\* engine's inputs [i:v] are not stream labels of the graph.
DefinedLabels == [i \in 1 .. Len(cv_graph.filters) |-> cv_graph.filters[i].output]

ConsumedLabels ==
    {<<i, j>> \in (1 .. Len(cv_graph.filters)) \X (1 .. 2) :
        /\ j <= Len(cv_graph.filters[i].inputs)
        /\ cv_graph.filters[i].inputs[j].name # "v"}

TimesDefined(l) ==
    Cardinality({i \in 1 .. Len(cv_graph.filters) : DefinedLabels[i] = l})

TimesConsumed(l) ==
    Cardinality({c \in ConsumedLabels :
                    cv_graph.filters[c[1]].inputs[c[2]] = l})

\* C40: in the filter graph for n >= 1 clips every stream label vid0 ..
\* vid(n-1) and xfade1 .. xfade(n-1) is defined exactly once and consumed
\* exactly once, the running stream is vid0 before the first join and
\* xfade<i> after join i, and the single output outv is derived from the
\* last running stream.
C40_LabelsDefinedAndConsumedOnce ==
    GraphBuilt =>
        LET n == Len(cv_transitions)
            streams == {Label("vid", i) : i \in 0 .. (n - 1)}
                           \cup {Label("xfade", i) : i \in 1 .. (n - 1)}
            last == IF n = 1 THEN Label("vid", 0) ELSE Label("xfade", n - 1)
        IN  /\ \A l \in streams : TimesDefined(l) = 1 /\ TimesConsumed(l) = 1
            /\ {DefinedLabels[i] : i \in DOMAIN DefinedLabels}
                  = streams \cup {Label("outv", 0)}
            /\ TimesDefined(Label("outv", 0)) = 1
            /\ TimesConsumed(Label("outv", 0)) = 0
            /\ \A f \in XfadeFilters :
                  f.inputs =
                      <<IF f.output.index = 1 THEN Label("vid", 0)
                        ELSE Label("xfade", f.output.index - 1),
                        Label("vid", f.output.index)>>
            /\ cv_graph.previousStream = last
            /\ \E i \in 1 .. Len(cv_graph.filters) :
                  /\ cv_graph.filters[i].output = Label("outv", 0)
                  /\ cv_graph.filters[i].inputs = <<last>>

\* C40 witness: the graph of three clips, with outv taken from xfade2.
C40_Witness ==
    /\ cv_pc = "running"
    /\ Len(cv_transitions) = 3
    /\ cv_graph.previousStream = Label("xfade", 2)
    /\ TimesConsumed(Label("xfade", 1)) = 1

(***************************************************************************)
(* findSuitableVideo search order                                          *)
(***************************************************************************)

\* The order in which the queries are said to be issued.
ClaimedQueryOrder ==
    <<fv_segment.description, fv_segment.text, "background", "nature",
      "landscape", "abstract", "minimalist">>

\* The step in which a search throws.
SearchThrows == fv_pc = "searching" /\ Len(fv_failed') > Len(fv_failed)

FadeAttemptEnds == gm_pc = "fading" /\ gm_pc' # "fading"

\* The error the catch block caught is that of deleting the raw file.
UnlinkFailed == Includes(gm_caught, "EPERM: operation not permitted, unlink")

\* C33: after any generateMusic attempt that downloaded a raw file, the raw
\* file no longer exists when the attempt ends, whether the fade/volume pass
\* succeeded or failed; a failure to delete the raw file is only logged: it
\* neither makes generateMusic fail nor triggers another attempt.
C33_RawFileRemoved ==
    /\ [][FadeAttemptEnds => RawPath(gm_musicId) \notin gm_files']_vars
    /\ [][(FadeAttemptEnds /\ UnlinkFailed')
            => (gm_pc' = "returned" /\ gm_attempt' = gm_attempt)]_vars

\* C34: when the attempt index is not smaller than the number of terms of
\* the category's list (attempt 2 of a two-term list), generateMusic searches
\* with the last term of that list.
C34_ExhaustedListUsesLastTerm ==
    \A a \in 1 .. Len(gm_searches) :
        a > Len(GetSearchTerms(gm_category))
            => gm_searches[a] =
                  GetSearchTerms(gm_category)[Len(GetSearchTerms(gm_category))]

\* C39: a failure of any step inside an attempt, including the probe of the
\* downloaded file's duration and the engine pass, leads to the next attempt
\* or to the aggregate error: the call is never left pending and the process
\* is never ended by it.
C39_EveryFailureLeadsOn ==
    /\ gm_pc \notin {"pending", "crashed"}
    /\ gm_pc = "rejected"
          => gm_error = <<"Max retries reached. Failed to generate music.">>

(***************************************************************************)
(* Batch scheduler properties: admission order and bookkeeping             *)
(***************************************************************************)

\* How often task t occurs in the list l.
Occurrences(l, t) == Cardinality({i \in 1 .. Len(l) : l[i] = t})

\* C35: the batch queue is FIFO: tasks are spawned in the order they were
\* enqueued, so task i is never started before a task j < i, under every
\* interleaving of the children's completions.
C35_AdmittedInEnqueueOrder ==
    \A i \in 1 .. Len(spawnLog) : spawnLog[i] = i - 1

\* C35 witness: the last task of a batch was admitted after a later-enqueued
\* sibling finished while an earlier one was still running.
C35_Witness ==
    /\ spawnLog = <<0, 1, 2>>
    /\ child[0] = "running"
    /\ child[1] = "closed"
    /\ child[2] = "running"

\* C36: each task is admitted exactly once: it leaves the queue and enters
\* the active set in one step, is never in both, and is never spawned twice;
\* and the step that removes a finished task from the active set is the step
\* that attempts the next admission (afterwards the queue is empty or the
\* active set is at its cap).
C36_AdmittedExactlyOnce ==
    /\ [](/\ Range(queue) \cap activeProcesses = {}
          /\ \A t \in TaskIds : Occurrences(spawnLog, t) <= 1
          /\ \A t \in activeProcesses : Occurrences(spawnLog, t) = 1)
    /\ [][\A t \in Range(queue) \ Range(queue') :
              /\ t \in activeProcesses'
              /\ Occurrences(spawnLog', t) = Occurrences(spawnLog, t) + 1]_vars
    /\ [][(activeProcesses \ activeProcesses' # {})
              => (queue' = <<>>
                    \/ Cardinality(activeProcesses') >= maxConcurrent)]_vars

\* C37: every started task is recorded exactly once when it finishes, in
\* results if its child closed with code 0 and in errors otherwise; no task
\* is in both lists or twice in one list, also when its child emits 'error'
\* and then 'close'; results and errors only grow.
C37_RecordedExactlyOnce ==
    /\ [](/\ \A t \in TaskIds :
                Occurrences(results, t) + Occurrences(errors, t) <= 1
          /\ \A t \in TaskIds :
                (child[t] = "closed" /\ alive)
                    => Occurrences(results, t) + Occurrences(errors, t) = 1)
    /\ [][/\ Len(results') >= Len(results)
          /\ SubSeq(results', 1, Len(results)) = results
          /\ Len(errors') >= Len(errors)
          /\ SubSeq(errors', 1, Len(errors)) = errors]_vars

\* C38: process(baseConfig, 0) terminates: the promise it returns is resolved
\* with the empty summary.  (process() runs to its return in one step and an
\* empty batch has no child, so no later event can resolve the promise.)
C38_EmptyBatchResolves ==
    (started /\ count = 0) => resolved

====
